---- MODULE Spec2Model ----
(***************************************************************************)
(* ComplianceSync API (nborkert/saas3): the compliance data model and its  *)
(* consistency rules.  The state is the Firestore document store (the      *)
(* per-organization sub-collections requirements, evidence, reports and    *)
(* audit_logs), the operations are the HTTP handlers of internal/api with  *)
(* the middleware in front of them, and each handler runs to completion    *)
(* (one request at a time, every storage call succeeding).                 *)
(*                                                                         *)
(* Times are whole hours.  uuid.New() is a fresh id: the next unused       *)
(* number.  Documents keep the fields the handlers read or write; the      *)
(* created_at/updated_at stamps, ip address and user agent are left out.   *)
(***************************************************************************)
EXTENDS Integers, Sequences, FiniteSets, TLC

VARIABLES
    requirements,   \* organizations/{org}/requirements : id -> Requirement
    evidence,       \* organizations/{org}/evidence     : id -> Evidence
    reports,        \* organizations/{org}/reports      : id -> Report
    audit_logs,     \* organizations/{org}/audit_logs, in the order written
    nextId,         \* the ids uuid.New() has handed out so far are 1..nextId
    now,            \* time.Now(), in hours
    resp,           \* the response to the last request
    trace,          \* history: per organization, the requests that changed its collections
    users,          \* users : uid -> User
    organizations,  \* organizations : id -> Organization
    accounts,       \* Firebase Auth: uid -> the custom claims of the account
    faults,         \* the storage calls that fail in this run
    calls           \* the store calls in progress, each at its own step

vars == <<requirements, evidence, reports, audit_logs, nextId, now, resp, trace,
          users, organizations, accounts, faults, calls>>

\* What the handlers of requirements, evidence, reports and audit logs never
\* write.
others == <<users, organizations, accounts, faults, calls>>

----------------------------------------------------------------------------
(* Bounds of the model *)

MaxIds == 3
MaxAudit == 3
\* The status derivation is tried at the clock readings 0..MaxTime, on evidence
\* counts up to MaxCount and due dates from MaxPastHours before hour 0 to
\* MaxDueHours after it.
MaxTime == 2
MaxCount == 2
MaxPastHours == 30
MaxDueHours == 200
\* Store calls running at the same time.
MaxProcs == 3
MinPasswordLen == 8

----------------------------------------------------------------------------
(* Program constants *)

RoleAdmin == "admin"
RoleComplianceOfficer == "compliance_officer"
RoleViewer == "viewer"

StatusNotStarted == "not_started"
StatusInProgress == "in_progress"
StatusCompliant == "compliant"
StatusAtRisk == "at_risk"
StatusNonCompliant == "non_compliant"

SourceManualUpload == "manual_upload"

ActionRequirementActivated == "requirement_activated"
ActionRequirementUpdated == "requirement_updated"
ActionRequirementDeactivated == "requirement_deactivated"
ActionEvidenceCreated == "evidence_created"
ActionEvidenceUpdated == "evidence_updated"
ActionEvidenceDeleted == "evidence_deleted"
ActionEvidenceViewed == "evidence_viewed"
ActionEvidenceDownloaded == "evidence_downloaded"
ActionReportGenerated == "report_generated"
ActionOrgUpdated == "organization_updated"
ActionOrgCreated == "organization_created"
ActionSubscriptionUpdated == "subscription_updated"

TierStarter == "starter"
TierProfessional == "professional"
TierBusiness == "business"

\* 25*1024*1024 bytes
MaxFileSize == 26214400

allowedTypes ==
    { "application/pdf", "application/msword",
      "application/vnd.openxmlformats-officedocument.wordprocessingml.document",
      "application/vnd.ms-excel",
      "application/vnd.openxmlformats-officedocument.spreadsheetml.sheet",
      "image/png", "image/jpeg" }

StatusOK == 200
StatusCreated == 201
StatusAccepted == 202
StatusBadRequest == 400
StatusForbidden == 403
StatusNotFound == 404
StatusConflict == 409
StatusInternalServerError == 500

HoursPerDay == 24

\* handleListAuditLogs: the limit when the query names none
DefaultLimit == 100

\* handleExportAuditLogs: the most entries an export reads, and the number
\* from which it refuses
ExportLimit == 10000

\* handleGetDashboard: a deadline is upcoming for now.AddDate(0, 0, 30)
UpcomingDays == 30

----------------------------------------------------------------------------
(* The request inputs the model draws from *)

Orgs == {"orgA", "orgB"}

\* The verified token claims (auth.UserClaims) of the callers.
Callers ==
    { [UID |-> "u1", Email |-> "u1@a.example", OrganizationID |-> "orgA", Role |-> RoleAdmin],
      [UID |-> "u2", Email |-> "u2@b.example", OrganizationID |-> "orgB", Role |-> RoleComplianceOfficer] }

\* A caller with the viewer role, of orgA.
Viewers ==
    { [UID |-> "u3", Email |-> "u3@a.example", OrganizationID |-> "orgA", Role |-> RoleViewer] }

\* Verified tokens whose custom claims are incomplete: one without
\* organizationId, one without role (the field is then the empty string).
Partial ==
    { [UID |-> "u4", Email |-> "u4@a.example", OrganizationID |-> "", Role |-> RoleAdmin],
      [UID |-> "u5", Email |-> "u5@a.example", OrganizationID |-> "orgA", Role |-> ""] }

\* The user ids a request can name: the three users and one that is none.
UIDs == {"u1", "u2", "u3", "u9"}

\* The role of a role-change body: the JSON string, whatever it is.
RolesIn == {RoleAdmin, RoleViewer, "owner"}

OrganizationBodies ==
    { [name |-> "Acme RIA LLC", industry |-> "financial_services", employee_count |-> "1-10",
       regulatory_framework |-> "sec_ria", website |-> "https://acme.example",
       address |-> "1 Main St", phone |-> "555-0100"] }

\* The source parameter of GET /evidence: absent, the source of uploads, and
\* one no stored item has.
SourcesIn == {"", SourceManualUpload, "gmail"}

\* Passwords, character by character: one that meets the rules, one without
\* upper-case letter, digit and special character, one that is too short.
Passwords ==
    { <<"P", "a", "s", "s", "w", "0", "r", "d", "!">>,
      <<"p", "a", "s", "s", "w", "o", "r", "d", "s">>,
      <<"P", "w", "0", "!">> }

RegisterBodies ==
    { [email |-> e, full_name |-> "Pat Doe", organization_name |-> "Acme RIA",
       password |-> pw, industry |-> "financial_services", employee_count |-> "1-10",
       regulatory_framework |-> "sec_ria"] :
         e \in {"u1@a.example", "u2@b.example"}, pw \in Passwords }

\* The actions a permission is asked for: the ones HasPermission names, some
\* it does not name, and one that is no action of the system.
ActionsIn ==
    {"view_dashboard", "view_requirements", "view_evidence", "view_audit_log",
     "generate_reports", "manage_users", "manage_billing", "manage_integrations",
     "manage_requirements", "upload_evidence", "delete_evidence", "no_such_action"}

\* The role of a stored user: the three roles, a string that is none of them
\* and the empty string.
RolesStored == {RoleAdmin, RoleComplianceOfficer, RoleViewer, "owner", ""}

InviteBodies == { [email |-> "new@a.example", role |-> RoleViewer] }

\* Every id a request can name: issued or not, of either organization.
IdSpace == 1..MaxIds

\* requirement_ids of a request body: a JSON array, repeats allowed.  Id 1 is
\* a requirement of the caller's organization, a requirement of the other
\* organization, an evidence item or not yet issued, as the run has it.
ReqIDLists == {<<>>, <<1>>, <<1, 1>>}

\* The global requirement_templates collection (read-only to tenants).
Templates ==
    [t \in {"sec-ria-001"} |->
        [ID |-> t, Title |-> "Code of Ethics",
         Description |-> "Adopt and enforce a written code of ethics",
         Category |-> "policy_management", Authority |-> "SEC Rule 204A-1",
         EvidenceTypes |-> <<"policy_document", "acknowledgment">>,
         Frequency |-> "annual"]]

TemplateIDs == {"sec-ria-001", "no-such-template"}
NotesIn == {"n1"}

\* Request bodies: a well-formed one per list of requirement ids, and one for
\* each way the handler turns a body down.
UploadBodies ==
    { [file_name |-> "ack.pdf", file_type |-> "application/pdf", file_size |-> MaxFileSize],
      [file_name |-> "ack.pdf", file_type |-> "application/pdf", file_size |-> MaxFileSize + 1],
      [file_name |-> "ack.txt", file_type |-> "text/plain", file_size |-> 1] }

CreateEvidenceBodies ==
    { [title |-> "Code of Ethics Ack 2025", description |-> "signed",
       evidence_date |-> "2025-01-15T00:00:00Z", requirement_ids |-> rs] : rs \in ReqIDLists }
    \cup
    { [title |-> "Code of Ethics Ack 2025", description |-> "signed",
       evidence_date |-> "15/01/2025", requirement_ids |-> <<1>>] }

UpdateEvidenceBodies ==
    { [title |-> "Code of Ethics Ack", description |-> "countersigned",
       requirement_ids |-> rs] : rs \in ReqIDLists }

GenerateReportBodies ==
    { [type |-> "requirement_detail", requirement_ids |-> <<1>>, title |-> "Q1"],
      [type |-> "summary", requirement_ids |-> <<>>, title |-> "Q1"] }

Range(s) == {s[i] : i \in 1..Len(s)}

----------------------------------------------------------------------------
(* Values *)

NoDate == [present |-> FALSE, at |-> 0]

\* next_due_date of a requirement update: left out, or a date eight days on.
DueDatesIn == {NoDate, [present |-> TRUE, at |-> 8 * HoursPerDay]}

NoEvidence ==
    [ID |-> 0, OrganizationID |-> "", Title |-> "", Description |-> "", Source |-> "",
     EvidenceDate |-> 0, FileURL |-> <<>>, FileName |-> "", FileSize |-> 0,
     FileType |-> "", RequirementIDs |-> <<>>, UploadedBy |-> "", Status |-> ""]

NoRequirement ==
    [ID |-> 0, OrganizationID |-> "", TemplateID |-> "", Title |-> "",
     Description |-> "", Category |-> "", Authority |-> "", EvidenceTypes |-> <<>>,
     Frequency |-> "", Status |-> "", NextDueDate |-> NoDate, EvidenceCount |-> 0, Notes |-> "",
     ActivatedBy |-> "", UpdatedBy |-> "", IsActive |-> FALSE]

NoReport ==
    [ID |-> 0, OrganizationID |-> "", Title |-> "", Type |-> "", RequirementIDs |-> <<>>,
     Status |-> "", FileURL |-> <<>>, GeneratedBy |-> ""]

NoChanges == [from |-> <<>>, to |-> <<>>]

\* Every storage call succeeds.
NoFaults == [audit |-> FALSE, counters |-> {}]

NoUser == [UID |-> "", Email |-> "", OrganizationID |-> "", Role |-> "", Status |-> ""]

NoOrganization ==
    [ID |-> "", Name |-> "", Industry |-> "", EmployeeCount |-> "",
     RegulatoryFramework |-> "", Website |-> "", Address |-> "", Phone |-> "",
     Subscription |-> [Tier |-> "", Status |-> "", CancelAtPeriodEnd |-> FALSE,
                       MaxUsers |-> 0, MonthlyPrice |-> 0],
     UpdatedBy |-> "", ActiveUserCount |-> 0]

\* time.Parse(time.RFC3339, s): the hour the text names, or an error.
ParseRFC3339(s) ==
    IF s = "2025-01-15T00:00:00Z" THEN [err |-> FALSE, at |-> 482472]
    ELSE [err |-> TRUE, at |-> 0]

\* Doc(id).Set(doc): creates the document or overwrites it whole.
Put(coll, id, doc) ==
    [k \in DOMAIN coll \cup {id} |-> IF k = id THEN doc ELSE coll[k]]

TotalAudit == Len(audit_logs["orgA"]) + Len(audit_logs["orgB"])

TotalTrace == Len(trace["orgA"]) + Len(trace["orgB"])

----------------------------------------------------------------------------
(* internal/store: FirestoreStore *)

\* uuid.New(): the k-th fresh id of the running request.
NewUUID(k) == nextId + k

\* Variant: a lookup by document id alone, across every organization.
GetEvidenceAnyOrg(orgID, evidenceID) ==
    IF \E o \in Orgs : evidenceID \in DOMAIN evidence[o]
    THEN [err |-> FALSE,
          doc |-> evidence[CHOOSE o \in Orgs : evidenceID \in DOMAIN evidence[o]][evidenceID]]
    ELSE [err |-> TRUE, doc |-> NoEvidence]

GetEvidence(orgID, evidenceID) ==
    IF evidenceID \in DOMAIN evidence[orgID]
    THEN [err |-> FALSE, doc |-> evidence[orgID][evidenceID]]
    ELSE [err |-> TRUE, doc |-> NoEvidence]

GetOrganization(orgID) ==
    IF orgID \in DOMAIN organizations
    THEN [err |-> FALSE, doc |-> organizations[orgID]]
    ELSE [err |-> TRUE, doc |-> NoOrganization]

\* uuid.New() of CreateOrganization: an id no organization has.
NewOrgID == CHOOSE o \in Orgs : o \notin DOMAIN organizations

\* The store assigns the id and sets active_user_count to 1: the creator is
\* the first user.
CreateOrganization(org) ==
    organizations' = Put(organizations, NewOrgID,
                         [org EXCEPT !.ID = NewOrgID, !.ActiveUserCount = 1])

\* Doc(org.ID).Set(org)
UpdateOrganization(org) ==
    organizations' = Put(organizations, org.ID, org)

GetUser(uid) ==
    IF uid \in DOMAIN users
    THEN [err |-> FALSE, doc |-> users[uid]]
    ELSE [err |-> TRUE, doc |-> NoUser]

\* Where("email", "==", email).Limit(1): a user document with this email, of
\* any organization and in any status.
GetUserByEmail(email) ==
    IF \E u \in DOMAIN users : users[u].Email = email
    THEN [err |-> FALSE, doc |-> users[CHOOSE u \in DOMAIN users : users[u].Email = email]]
    ELSE [err |-> TRUE, doc |-> NoUser]

\* Doc(user.UID).Set(user) with status active.
CreateUser(user) ==
    users' = Put(users, user.UID, [user EXCEPT !.Status = "active"])

\* Doc(user.UID).Set(user)
UpdateUser(user) ==
    users' = Put(users, user.UID, user)

\* Where("organization_id", "==", orgID): every user document of the
\* organization, whatever its status.
ListUsersByOrganization(orgID) ==
    {users[u] : u \in {k \in DOMAIN users : users[k].OrganizationID = orgID}}

GetRequirement(orgID, reqID) ==
    IF reqID \in DOMAIN requirements[orgID]
    THEN [err |-> FALSE, doc |-> requirements[orgID][reqID]]
    ELSE [err |-> TRUE, doc |-> NoRequirement]

GetReport(orgID, reportID) ==
    IF reportID \in DOMAIN reports[orgID]
    THEN [err |-> FALSE, doc |-> reports[orgID][reportID]]
    ELSE [err |-> TRUE, doc |-> NoReport]

\* Variant: every requirement of the organization.
ListRequirementsAll(orgID) ==
    {requirements[orgID][r] : r \in DOMAIN requirements[orgID]}

\* Where("is_active", "==", true): the organization's active requirements.
ListRequirements(orgID) ==
    {requirements[orgID][r] : r \in {k \in DOMAIN requirements[orgID] :
                                         requirements[orgID][k].IsActive}}

\* Variant: every document of the collection that matches the filters.
ListEvidenceAnyStatus(orgID, filters) ==
    {evidence[orgID][e] : e \in {k \in DOMAIN evidence[orgID] :
        \A key \in DOMAIN filters :
           (CASE key = "source" -> evidence[orgID][k].Source
              [] key = "status" -> evidence[orgID][k].Status) = filters[key]}}

EvidenceField(ev, key) ==
    CASE key = "source" -> ev.Source
      [] key = "status" -> ev.Status

\* Where("status", "==", "active"), then Where(key, "==", value) for every
\* filter, on the organization's own evidence collection.
ListEvidence(orgID, filters) ==
    {evidence[orgID][e] : e \in {k \in DOMAIN evidence[orgID] :
        /\ evidence[orgID][k].Status = "active"
        /\ \A key \in DOMAIN filters :
              EvidenceField(evidence[orgID][k], key) = filters[key]}}

GetRequirementTemplate(templateID) ==
    IF templateID \in DOMAIN Templates
    THEN [err |-> FALSE, doc |-> Templates[templateID]]
    ELSE [err |-> TRUE,
          doc |-> [ID |-> "", Title |-> "", Description |-> "", Category |-> "",
                   Authority |-> "", EvidenceTypes |-> <<>>, Frequency |-> ""]]

\* Variant: the count is read, one is added and the sum is written back, the
\* read being the one made before the calls in progress began.
incrementFromRead(reqs, orgID, reqID) ==
    IF reqID \in DOMAIN reqs[orgID] /\ reqID \notin faults.counters
    THEN [reqs EXCEPT ![orgID][reqID].EvidenceCount = calls.base[reqID] + 1]
    ELSE reqs

\* Doc(reqID).Update(evidence_count: Increment(1)): the server adds to the
\* stored value in one step.  Update of a missing document, like a failing
\* call, is an error, which the callers log and ignore.
incrementRequirementEvidenceCount(reqs, orgID, reqID) ==
    IF reqID \in DOMAIN reqs[orgID] /\ reqID \notin faults.counters
    THEN [reqs EXCEPT ![orgID][reqID].EvidenceCount = @ + 1]
    ELSE reqs

decrementRequirementEvidenceCount(reqs, orgID, reqID) ==
    IF reqID \in DOMAIN reqs[orgID] /\ reqID \notin faults.counters
    THEN [reqs EXCEPT ![orgID][reqID].EvidenceCount = @ - 1]
    ELSE reqs

\* for _, reqID := range evidence.RequirementIDs { increment }
RECURSIVE IncrementEach(_, _, _)
IncrementEach(reqs, orgID, ids) ==
    IF ids = <<>> THEN reqs
    ELSE IncrementEach(incrementRequirementEvidenceCount(reqs, orgID, Head(ids)),
                       orgID, Tail(ids))

\* for _, reqID := range evidence.RequirementIDs { decrement }
RECURSIVE DecrementEach(_, _, _)
DecrementEach(reqs, orgID, ids) ==
    IF ids = <<>> THEN reqs
    ELSE DecrementEach(decrementRequirementEvidenceCount(reqs, orgID, Head(ids)),
                       orgID, Tail(ids))

\* The store assigns the document its own fresh id (the k-th of the request),
\* whatever ID the caller filled in, then bumps the counters of the
\* requirements the new document names.
CreateEvidence(ev, k) ==
    LET doc == [ev EXCEPT !.ID = NewUUID(k)]
    IN  /\ evidence' = [evidence EXCEPT ![doc.OrganizationID] = Put(@, doc.ID, doc)]
        /\ requirements' = IncrementEach(requirements, doc.OrganizationID, doc.RequirementIDs)

UpdateEvidence(ev) ==
    evidence' = [evidence EXCEPT ![ev.OrganizationID] = Put(@, ev.ID, ev)]

\* Variant: the document is removed from the collection.
DeleteEvidenceHard(orgID, evidenceID) ==
    LET got == GetEvidence(orgID, evidenceID)
    IN  /\ ~got.err
        /\ evidence' = [evidence EXCEPT ![orgID] =
                           [k \in DOMAIN @ \ {evidenceID} |-> @[k]]]
        /\ requirements' = DecrementEach(requirements, orgID, got.doc.RequirementIDs)

\* Reads the stored document, flips its status, then lowers the counter of
\* every entry of its requirement_ids.  (Called only after a successful
\* GetEvidence of the same document.)
DeleteEvidence(orgID, evidenceID) ==
    LET got == GetEvidence(orgID, evidenceID)
    IN  /\ ~got.err
        /\ evidence' = [evidence EXCEPT ![orgID][evidenceID].Status = "deleted"]
        /\ requirements' = DecrementEach(requirements, orgID, got.doc.RequirementIDs)

\* Variant: the document is stored as the handler filled it in.
CreateRequirementAsGiven(req, k) ==
    LET doc == [req EXCEPT !.ID = NewUUID(k)]
    IN  requirements' = [requirements EXCEPT ![doc.OrganizationID] = Put(@, doc.ID, doc)]

CreateRequirement(req, k) ==
    LET doc == [req EXCEPT !.ID = NewUUID(k), !.Status = StatusNotStarted,
                           !.EvidenceCount = 0, !.IsActive = TRUE]
    IN  requirements' = [requirements EXCEPT ![doc.OrganizationID] = Put(@, doc.ID, doc)]

UpdateRequirement(req) ==
    requirements' = [requirements EXCEPT ![req.OrganizationID] = Put(@, req.ID, req)]

CreateReport(rep, k) ==
    LET doc == [rep EXCEPT !.ID = NewUUID(k)]
    IN  reports' = [reports EXCEPT ![doc.OrganizationID] = Put(@, doc.ID, doc)]

\* Variant: the newest entry first.
CreateAuditLogInFront(log) ==
    audit_logs' = [audit_logs EXCEPT
                     ![log.OrganizationID] = <<[log EXCEPT !.Timestamp = now]>> \o @]

\* Variant: one slot per organization, rewritten by every write.
CreateAuditLogInPlace(log) ==
    audit_logs' = [audit_logs EXCEPT
                     ![log.OrganizationID] = <<[log EXCEPT !.Timestamp = now]>>]

\* A new document under a fresh id, stamped with the server's clock: the
\* collection only ever grows.  When the write fails nothing is stored and
\* the error goes back to the caller.
CreateAuditLog(log) ==
    audit_logs' = IF faults.audit
                  THEN audit_logs
                  ELSE [audit_logs EXCEPT
                          ![log.OrganizationID] = Append(@, [log EXCEPT !.Timestamp = now])]

Reverse(s) == [i \in 1..Len(s) |-> s[Len(s) + 1 - i]]

AuditField(log, key) ==
    CASE key = "user_id" -> log.UserID
      [] key = "action" -> log.Action
      [] key = "resource_type" -> log.ResourceType

\* Variant: the entries in the order they were written, oldest first.
ListAuditLogsOldestFirst(orgID, filters, limit) ==
    LET Matches(log) == \A key \in DOMAIN filters : AuditField(log, key) = filters[key]
        hits == SelectSeq(audit_logs[orgID], Matches)
    IN  IF limit > 0 /\ Len(hits) > limit THEN SubSeq(hits, 1, limit) ELSE hits

\* The organization's own audit_logs collection, OrderBy(timestamp, Desc)
\* (entries are written in clock order, so newest first is last written
\* first), Where(key == value) for every filter, Limit(limit) when limit > 0.
ListAuditLogs(orgID, filters, limit) ==
    LET Matches(log) == \A key \in DOMAIN filters : AuditField(log, key) = filters[key]
        hits == SelectSeq(Reverse(audit_logs[orgID]), Matches)
    IN  IF limit > 0 /\ Len(hits) > limit THEN SubSeq(hits, 1, limit) ELSE hits

----------------------------------------------------------------------------
(* internal/models *)

\* int(x): Go's float-to-int conversion drops the fraction (rounds toward 0).
TruncDiv(a, b) == IF a >= 0 THEN a \div b ELSE -((-a) \div b)

\* Variant: the status field as it is stored.
CalculateStatusStored(r, t) == r.Status

\* Requirement.CalculateStatus at time t.
CalculateStatus(r, t) ==
    IF r.EvidenceCount = 0 THEN StatusNotStarted
    ELSE IF ~r.NextDueDate.present
         THEN IF r.EvidenceCount > 0 THEN StatusCompliant ELSE StatusNotStarted
         ELSE LET daysUntilDue == TruncDiv(r.NextDueDate.at - t, HoursPerDay)
              IN  IF daysUntilDue < 0 THEN StatusNonCompliant
                  ELSE IF daysUntilDue <= 7 THEN StatusAtRisk
                  ELSE IF r.EvidenceCount > 0 THEN StatusCompliant
                  ELSE StatusInProgress

\* Variant: a compliance officer is granted what an admin is.
HasPermissionOfficerAll(u, action) ==
    CASE u.Role = RoleAdmin -> TRUE
      [] u.Role = RoleComplianceOfficer -> TRUE
      [] u.Role = RoleViewer ->
            \/ action = "view_dashboard" \/ action = "view_requirements"
            \/ action = "view_evidence" \/ action = "view_audit_log"
            \/ action = "generate_reports"
      [] OTHER -> FALSE

\* User.HasPermission: a switch on the role.
HasPermission(u, action) ==
    CASE u.Role = RoleAdmin -> TRUE
      [] u.Role = RoleComplianceOfficer ->
            action # "manage_users" /\ action # "manage_billing"
            /\ action # "manage_integrations"
      [] u.Role = RoleViewer ->
            \/ action = "view_dashboard" \/ action = "view_requirements"
            \/ action = "view_evidence" \/ action = "view_audit_log"
            \/ action = "generate_reports"
      [] OTHER -> FALSE

GetMaxUsers(tier) ==
    CASE tier = TierStarter -> 10
      [] tier = TierProfessional -> 25
      [] tier = TierBusiness -> 50
      [] OTHER -> 10

\* The monthly price of a tier, in dollars.
GetMonthlyPrice(tier) ==
    CASE tier = TierStarter -> 149
      [] tier = TierProfessional -> 349
      [] tier = TierBusiness -> 699
      [] OTHER -> 149

AuditLog(c, action, resourceType, resourceID, description, changes, metadata) ==
    [OrganizationID |-> c.OrganizationID, Timestamp |-> 0, UserID |-> c.UID,
     UserEmail |-> c.Email, Action |-> action, ResourceType |-> resourceType,
     ResourceID |-> resourceID, Description |-> description,
     Changes |-> changes, Metadata |-> metadata]

----------------------------------------------------------------------------
(* internal/auth and internal/api/server.go: the middleware *)

RequireOrganization(c) == c.OrganizationID # ""

requireAdmin(c) == c.Role = RoleAdmin

\* Variant: any role of the organization may write.
requireWriteAnyRole(c) == c.Role \in {RoleAdmin, RoleComplianceOfficer, RoleViewer}

requireWrite(c) == c.Role = RoleAdmin \/ c.Role = RoleComplianceOfficer

\* authClient.SetCustomUserClaims: an error (no such account) is not looked at.
SetCustomClaims(uid, claims) ==
    accounts' = IF uid \in DOMAIN accounts THEN Put(accounts, uid, claims) ELSE accounts

\* authClient.CreateUser: the uid the identity provider gives the new
\* account, one no account and no user document has.
NewUID == CHOOSE u \in UIDs : u \notin DOMAIN users \cup DOMAIN accounts

\* isValidPassword: eight characters or more, among them an upper-case
\* letter, a digit and a character that is neither letter nor digit.
Upper == {"A", "B", "C", "D", "E", "F", "G", "H", "I", "J", "K", "L", "M",
          "N", "O", "P", "Q", "R", "S", "T", "U", "V", "W", "X", "Y", "Z"}
Lower == {"a", "b", "c", "d", "e", "f", "g", "h", "i", "j", "k", "l", "m",
          "n", "o", "p", "q", "r", "s", "t", "u", "v", "w", "x", "y", "z"}
Digits == {"0", "1", "2", "3", "4", "5", "6", "7", "8", "9"}

isValidPassword(password) ==
    /\ Len(password) >= MinPasswordLen
    /\ \E i \in 1..Len(password) : password[i] \in Upper
    /\ \E i \in 1..Len(password) : password[i] \in Digits
    /\ \E i \in 1..Len(password) : password[i] \notin Upper \cup Lower \cup Digits

\* authClient.DeleteUser: the accounts left when it succeeds.
DeleteUser(uid) == [u \in DOMAIN accounts \ {uid} |-> accounts[u]]

----------------------------------------------------------------------------
(* Responses and the history *)

NoMetrics ==
    [TotalRequirements |-> 0, CompliantRequirements |-> 0, AtRiskRequirements |-> 0,
     NonCompliantRequirements |-> 0, TotalEvidence |-> 0, UpcomingDeadlines |-> {}]

\* The last exchange: whose request it was (org, uid) and the id its path or
\* body named (0 when it names none; user is the user id it named, "" when
\* none), then what the caller gets back: the HTTP status and, of the body, the
\* id and the requirement status and evidence count it carries (0 and "" when
\* it has none).  A list response carries its documents in list (a JSON array,
\* here the set of its elements), the dashboard its numbers in metrics.
Response(c, named, status, id) ==
    [org |-> c.OrganizationID, uid |-> c.UID, named |-> named, status |-> status,
     id |-> id, rstatus |-> "", count |-> 0, list |-> {}, metrics |-> NoMetrics,
     user |-> "", rows |-> <<>>]

Event(op, id, reqs) == [op |-> op, id |-> id, reqs |-> reqs]

Record(c, e) == trace' = [trace EXCEPT ![c.OrganizationID] = Append(@, e)]

\* The audited requests a run may still make: counted by the entries they
\* wrote or, when the audit writes fail, by the requests that went through.
AuditRoom == IF faults.audit THEN TotalTrace < MaxAudit ELSE TotalAudit < MaxAudit

\* A request answered without touching the store.
Answer(c, named, status) ==
    /\ resp' = Response(c, named, status, 0)
    /\ UNCHANGED <<requirements, evidence, reports, audit_logs, nextId, now, others, trace>>


----------------------------------------------------------------------------
(* internal/api/evidence_handlers.go *)

\* POST /evidence/upload-url
handleGenerateUploadURL(c, fileName, fileType, fileSize) ==
    IF ~RequireOrganization(c) \/ ~requireWrite(c)
    THEN Answer(c, 0, StatusForbidden)
    ELSE IF fileSize > MaxFileSize \/ fileType \notin allowedTypes
    THEN Answer(c, 0, StatusBadRequest)
    ELSE LET evidenceID == NewUUID(1)
             filePath == <<c.OrganizationID, "evidence", evidenceID, fileName>>
             ev == [NoEvidence EXCEPT
                      !.ID = evidenceID, !.OrganizationID = c.OrganizationID,
                      !.FileName = fileName, !.FileSize = fileSize,
                      !.FileType = fileType, !.FileURL = filePath,
                      !.Status = "uploading", !.UploadedBy = c.UID]
         IN  /\ nextId + 2 <= MaxIds
             /\ CreateEvidence(ev, 2)
             /\ nextId' = nextId + 2
             /\ resp' = Response(c, 0, StatusOK, evidenceID)
             /\ Record(c, Event("upload-url", NewUUID(2), <<>>))
             /\ UNCHANGED <<reports, audit_logs, now, others>>

\* POST /evidence
handleCreateEvidence(c, evidenceID, title, description, evidenceDate, requirementIDs) ==
    IF ~RequireOrganization(c) \/ ~requireWrite(c)
    THEN Answer(c, evidenceID, StatusForbidden)
    ELSE IF ParseRFC3339(evidenceDate).err
    THEN Answer(c, evidenceID, StatusBadRequest)
    ELSE IF GetEvidence(c.OrganizationID, evidenceID).err
    THEN Answer(c, evidenceID, StatusNotFound)
    ELSE LET old == GetEvidence(c.OrganizationID, evidenceID).doc
             ev == [old EXCEPT
                      !.Title = title, !.Description = description,
                      !.EvidenceDate = ParseRFC3339(evidenceDate).at,
                      !.RequirementIDs = requirementIDs,
                      !.Source = SourceManualUpload, !.Status = "active"]
         IN  /\ AuditRoom
             /\ UpdateEvidence(ev)
             /\ CreateAuditLog(AuditLog(c, ActionEvidenceCreated, "evidence", ev.ID,
                                        <<"Uploaded evidence: ", ev.Title>>, NoChanges, <<>>))
             /\ resp' = Response(c, evidenceID, StatusCreated, evidenceID)
             /\ Record(c, Event("create-evidence", ev.ID, requirementIDs))
             /\ UNCHANGED <<requirements, reports, nextId, now, others>>

\* GET /evidence?source=...: source "" is a query without the parameter.
handleListEvidence(c, source) ==
    IF ~RequireOrganization(c)
    THEN Answer(c, 0, StatusForbidden)
    ELSE LET filters == IF source # "" THEN [k \in {"source"} |-> source] ELSE <<>>
         IN  /\ resp' = [Response(c, 0, StatusOK, 0)
                           EXCEPT !.list = ListEvidence(c.OrganizationID, filters)]
             /\ UNCHANGED <<requirements, evidence, reports, audit_logs, nextId, now, others, trace>>

\* GET /evidence/{evidenceID}
handleGetEvidence(c, evidenceID) ==
    IF ~RequireOrganization(c)
    THEN Answer(c, evidenceID, StatusForbidden)
    ELSE IF GetEvidence(c.OrganizationID, evidenceID).err
    THEN Answer(c, evidenceID, StatusNotFound)
    ELSE LET ev == GetEvidence(c.OrganizationID, evidenceID).doc
         IN  /\ AuditRoom
             /\ CreateAuditLog(AuditLog(c, ActionEvidenceViewed, "evidence", ev.ID,
                                        <<"Viewed evidence: ", ev.Title>>, NoChanges, <<>>))
             /\ resp' = Response(c, evidenceID, StatusOK, evidenceID)
             /\ Record(c, Event("get-evidence", ev.ID, <<>>))
             /\ UNCHANGED <<requirements, evidence, reports, nextId, now, others>>

\* Variant: the counters follow the change of requirement_ids, one down for
\* every id the item named before and one up for every id it names now.
handleUpdateEvidenceCounting(c, evidenceID, title, description, requirementIDs) ==
    IF ~RequireOrganization(c) \/ ~requireWrite(c)
    THEN Answer(c, evidenceID, StatusForbidden)
    ELSE IF GetEvidence(c.OrganizationID, evidenceID).err
    THEN Answer(c, evidenceID, StatusNotFound)
    ELSE LET old == GetEvidence(c.OrganizationID, evidenceID).doc
             oldRequirements == old.RequirementIDs
             ev == [old EXCEPT !.Title = title, !.Description = description,
                               !.RequirementIDs = requirementIDs]
         IN  /\ AuditRoom
             /\ UpdateEvidence(ev)
             /\ requirements' =
                   IncrementEach(DecrementEach(requirements, c.OrganizationID,
                                               oldRequirements),
                                 c.OrganizationID, requirementIDs)
             /\ CreateAuditLog(AuditLog(c, ActionEvidenceUpdated, "evidence", ev.ID,
                                        <<"Updated evidence: ", ev.Title>>,
                                        [from |-> oldRequirements, to |-> requirementIDs],
                                        <<>>))
             /\ resp' = Response(c, evidenceID, StatusOK, evidenceID)
             /\ Record(c, Event("update-evidence", ev.ID, requirementIDs))
             /\ UNCHANGED <<reports, nextId, now, others>>

\* PUT /evidence/{evidenceID}
handleUpdateEvidence(c, evidenceID, title, description, requirementIDs) ==
    IF ~RequireOrganization(c) \/ ~requireWrite(c)
    THEN Answer(c, evidenceID, StatusForbidden)
    ELSE IF GetEvidence(c.OrganizationID, evidenceID).err
    THEN Answer(c, evidenceID, StatusNotFound)
    ELSE LET old == GetEvidence(c.OrganizationID, evidenceID).doc
             oldRequirements == old.RequirementIDs
             ev == [old EXCEPT !.Title = title, !.Description = description,
                               !.RequirementIDs = requirementIDs]
         IN  /\ AuditRoom
             /\ UpdateEvidence(ev)
             /\ CreateAuditLog(AuditLog(c, ActionEvidenceUpdated, "evidence", ev.ID,
                                        <<"Updated evidence: ", ev.Title>>,
                                        [from |-> oldRequirements, to |-> requirementIDs],
                                        <<>>))
             /\ resp' = Response(c, evidenceID, StatusOK, evidenceID)
             /\ Record(c, Event("update-evidence", ev.ID, requirementIDs))
             /\ UNCHANGED <<requirements, reports, nextId, now, others>>

\* Variant: the error of the audit write is answered with 500.
handleDeleteEvidenceAuditChecked(c, evidenceID) ==
    IF ~RequireOrganization(c) \/ ~requireWrite(c)
    THEN Answer(c, evidenceID, StatusForbidden)
    ELSE IF GetEvidence(c.OrganizationID, evidenceID).err
    THEN Answer(c, evidenceID, StatusNotFound)
    ELSE LET ev == GetEvidence(c.OrganizationID, evidenceID).doc
         IN  /\ AuditRoom
             /\ DeleteEvidence(c.OrganizationID, evidenceID)
             /\ CreateAuditLog(AuditLog(c, ActionEvidenceDeleted, "evidence", ev.ID,
                                        <<"Deleted evidence: ", ev.Title>>, NoChanges,
                                        ev.RequirementIDs))
             /\ resp' = Response(c, evidenceID,
                                 IF faults.audit THEN StatusInternalServerError
                                 ELSE StatusOK, 0)
             /\ Record(c, Event("delete-evidence", ev.ID, <<>>))
             /\ UNCHANGED <<reports, nextId, now, others>>

\* DELETE /evidence/{evidenceID}
handleDeleteEvidence(c, evidenceID) ==
    IF ~RequireOrganization(c) \/ ~requireWrite(c)
    THEN Answer(c, evidenceID, StatusForbidden)
    ELSE IF GetEvidence(c.OrganizationID, evidenceID).err
    THEN Answer(c, evidenceID, StatusNotFound)
    ELSE LET ev == GetEvidence(c.OrganizationID, evidenceID).doc
         IN  /\ AuditRoom
             /\ DeleteEvidence(c.OrganizationID, evidenceID)
             /\ CreateAuditLog(AuditLog(c, ActionEvidenceDeleted, "evidence", ev.ID,
                                        <<"Deleted evidence: ", ev.Title>>, NoChanges,
                                        ev.RequirementIDs))
             /\ resp' = Response(c, evidenceID, StatusOK, 0)
             /\ Record(c, Event("delete-evidence", ev.ID, <<>>))
             /\ UNCHANGED <<reports, nextId, now, others>>

\* GET /evidence/{evidenceID}/download-url
handleGenerateDownloadURL(c, evidenceID) ==
    IF ~RequireOrganization(c)
    THEN Answer(c, evidenceID, StatusForbidden)
    ELSE IF GetEvidence(c.OrganizationID, evidenceID).err
    THEN Answer(c, evidenceID, StatusNotFound)
    ELSE LET ev == GetEvidence(c.OrganizationID, evidenceID).doc
         IN  /\ AuditRoom
             /\ CreateAuditLog(AuditLog(c, ActionEvidenceDownloaded, "evidence", ev.ID,
                                        <<"Downloaded evidence: ", ev.Title>>, NoChanges, <<>>))
             /\ resp' = Response(c, evidenceID, StatusOK, 0)
             /\ Record(c, Event("download-url", ev.ID, <<>>))
             /\ UNCHANGED <<requirements, evidence, reports, nextId, now, others>>

----------------------------------------------------------------------------
(* internal/api: requirement handlers *)

\* POST /requirements
handleCreateRequirement(c, templateID, notes) ==
    IF ~RequireOrganization(c) \/ ~requireWrite(c)
    THEN Answer(c, 0, StatusForbidden)
    ELSE IF GetRequirementTemplate(templateID).err
    THEN Answer(c, 0, StatusNotFound)
    ELSE LET template == GetRequirementTemplate(templateID).doc
             requirement == [NoRequirement EXCEPT
                               !.OrganizationID = c.OrganizationID,
                               !.TemplateID = template.ID, !.Title = template.Title,
                               !.Description = template.Description,
                               !.Category = template.Category,
                               !.Authority = template.Authority,
                               !.EvidenceTypes = template.EvidenceTypes,
                               !.Frequency = template.Frequency,
                               !.Notes = notes, !.ActivatedBy = c.UID]
         IN  /\ nextId + 1 <= MaxIds
             /\ AuditRoom
             /\ CreateRequirement(requirement, 1)
             /\ nextId' = nextId + 1
             /\ CreateAuditLog(AuditLog(c, ActionRequirementActivated, "requirement",
                                        NewUUID(1),
                                        <<"Activated requirement: ", requirement.Title>>,
                                        NoChanges, <<>>))
             /\ resp' = [Response(c, 0, StatusCreated, NewUUID(1))
                           EXCEPT !.rstatus = StatusNotStarted]
             /\ Record(c, Event("create-requirement", NewUUID(1), <<>>))
             /\ UNCHANGED <<evidence, reports, now, others>>

\* GET /requirements: req.Status = req.CalculateStatus() on every element.
handleListRequirements(c) ==
    IF ~RequireOrganization(c)
    THEN Answer(c, 0, StatusForbidden)
    ELSE /\ resp' = [Response(c, 0, StatusOK, 0)
                       EXCEPT !.list = {[req EXCEPT !.Status = CalculateStatus(req, now)] :
                                           req \in ListRequirements(c.OrganizationID)}]
         /\ UNCHANGED <<requirements, evidence, reports, audit_logs, nextId, now, others, trace>>

\* GET /requirements/{requirementID}: the status is recomputed, not stored.
handleGetRequirement(c, requirementID) ==
    IF ~RequireOrganization(c)
    THEN Answer(c, requirementID, StatusForbidden)
    ELSE IF GetRequirement(c.OrganizationID, requirementID).err
    THEN Answer(c, requirementID, StatusNotFound)
    ELSE LET requirement == GetRequirement(c.OrganizationID, requirementID).doc
         IN  /\ resp' = [Response(c, requirementID, StatusOK, requirementID)
                           EXCEPT !.rstatus = CalculateStatus(requirement, now),
                                  !.count = requirement.EvidenceCount]
             /\ UNCHANGED <<requirements, evidence, reports, audit_logs, nextId, now, others, trace>>

\* PUT /requirements/{requirementID}: next_due_date and status of the body
\* are decoded and never used.
handleUpdateRequirement(c, requirementID, notes, nextDueDate) ==
    IF ~RequireOrganization(c) \/ ~requireWrite(c)
    THEN Answer(c, requirementID, StatusForbidden)
    ELSE IF GetRequirement(c.OrganizationID, requirementID).err
    THEN Answer(c, requirementID, StatusNotFound)
    ELSE LET old == GetRequirement(c.OrganizationID, requirementID).doc
             requirement == [old EXCEPT !.Notes = notes, !.UpdatedBy = c.UID]
         IN  /\ AuditRoom
             /\ UpdateRequirement(requirement)
             /\ CreateAuditLog(AuditLog(c, ActionRequirementUpdated, "requirement",
                                        requirement.ID,
                                        <<"Updated requirement: ", requirement.Title>>,
                                        NoChanges, <<>>))
             /\ resp' = [Response(c, requirementID, StatusOK, requirementID)
                           EXCEPT !.rstatus = requirement.Status,
                                  !.count = requirement.EvidenceCount]
             /\ Record(c, Event("update-requirement", requirement.ID, <<>>))
             /\ UNCHANGED <<evidence, reports, nextId, now, others>>

\* DELETE /requirements/{requirementID}
handleDeactivateRequirement(c, requirementID) ==
    IF ~RequireOrganization(c) \/ ~requireWrite(c)
    THEN Answer(c, requirementID, StatusForbidden)
    ELSE IF GetRequirement(c.OrganizationID, requirementID).err
    THEN Answer(c, requirementID, StatusNotFound)
    ELSE LET old == GetRequirement(c.OrganizationID, requirementID).doc
             requirement == [old EXCEPT !.IsActive = FALSE, !.UpdatedBy = c.UID]
         IN  /\ AuditRoom
             /\ UpdateRequirement(requirement)
             /\ CreateAuditLog(AuditLog(c, ActionRequirementDeactivated, "requirement",
                                        requirement.ID,
                                        <<"Deactivated requirement: ", requirement.Title>>,
                                        NoChanges, <<>>))
             /\ resp' = Response(c, requirementID, StatusOK, 0)
             /\ Record(c, Event("deactivate-requirement", requirement.ID, <<>>))
             /\ UNCHANGED <<evidence, reports, nextId, now, others>>

----------------------------------------------------------------------------
(* internal/api: organization handlers *)

\* PUT /organization (admin)
handleUpdateOrganization(c, body) ==
    IF ~RequireOrganization(c) \/ ~requireAdmin(c)
    THEN Answer(c, 0, StatusForbidden)
    ELSE IF GetOrganization(c.OrganizationID).err
    THEN Answer(c, 0, StatusNotFound)
    ELSE LET old == GetOrganization(c.OrganizationID).doc
             org == [old EXCEPT
                       !.Name = body.name, !.Industry = body.industry,
                       !.EmployeeCount = body.employee_count,
                       !.RegulatoryFramework = body.regulatory_framework,
                       !.Website = body.website, !.Address = body.address,
                       !.Phone = body.phone, !.UpdatedBy = c.UID]
         IN  /\ AuditRoom
             /\ UpdateOrganization(org)
             /\ CreateAuditLog(AuditLog(c, ActionOrgUpdated, "organization", org.ID,
                                        <<"Organization profile updated">>, NoChanges, <<>>))
             /\ resp' = Response(c, 0, StatusOK, 0)
             /\ Record(c, Event("update-organization", 0, <<>>))
             /\ UNCHANGED <<requirements, evidence, reports, nextId, now, users, accounts,
                           faults, calls>>

\* GET /organization/dashboard
handleGetDashboard(c) ==
    IF ~RequireOrganization(c)
    THEN Answer(c, 0, StatusForbidden)
    ELSE LET reqs == {[req EXCEPT !.Status = CalculateStatus(req, now)] :
                         req \in ListRequirements(c.OrganizationID)}
             thirtyDaysFromNow == now + UpcomingDays * HoursPerDay
             metrics ==
                 [TotalRequirements |-> Cardinality(reqs),
                  CompliantRequirements |->
                      Cardinality({req \in reqs : req.Status = StatusCompliant}),
                  AtRiskRequirements |->
                      Cardinality({req \in reqs : req.Status = StatusAtRisk}),
                  NonCompliantRequirements |->
                      Cardinality({req \in reqs : req.Status = StatusNonCompliant}),
                  TotalEvidence |-> Cardinality(ListEvidence(c.OrganizationID, <<>>)),
                  UpcomingDeadlines |->
                      {req \in reqs : /\ req.NextDueDate.present
                                      /\ req.NextDueDate.at > now
                                      /\ req.NextDueDate.at < thirtyDaysFromNow}]
         IN  /\ resp' = [Response(c, 0, StatusOK, 0) EXCEPT !.metrics = metrics]
             /\ UNCHANGED <<requirements, evidence, reports, audit_logs, nextId, now, others, trace>>

----------------------------------------------------------------------------
(* internal/api: user management handlers *)

\* A request about a user answered without touching anything.
AnswerUser(c, userID, status) ==
    /\ resp' = [Response(c, 0, status, 0) EXCEPT !.user = userID]
    /\ UNCHANGED <<requirements, evidence, reports, audit_logs, nextId, now, others, trace>>

\* POST /users/invite (admin): no invitation is stored.
handleInviteUser(c, email, role) ==
    IF ~RequireOrganization(c) \/ ~requireAdmin(c)
    THEN Answer(c, 0, StatusForbidden)
    ELSE IF GetOrganization(c.OrganizationID).err
    THEN Answer(c, 0, StatusInternalServerError)
    ELSE IF Cardinality(ListUsersByOrganization(c.OrganizationID))
               >= GetOrganization(c.OrganizationID).doc.Subscription.MaxUsers
    THEN Answer(c, 0, StatusForbidden)
    ELSE Answer(c, 0, StatusOK)

\* PUT /users/{userID}/role (admin)
handleUpdateUserRole(c, userID, role) ==
    IF ~RequireOrganization(c) \/ ~requireAdmin(c)
    THEN AnswerUser(c, userID, StatusForbidden)
    ELSE IF GetUser(userID).err
    THEN AnswerUser(c, userID, StatusNotFound)
    ELSE IF GetUser(userID).doc.OrganizationID # c.OrganizationID
    THEN AnswerUser(c, userID, StatusForbidden)
    ELSE LET user == [GetUser(userID).doc EXCEPT !.Role = role]
         IN  /\ UpdateUser(user)
             /\ SetCustomClaims(userID, [organizationId |-> user.OrganizationID,
                                         role |-> user.Role])
             /\ resp' = [Response(c, 0, StatusOK, 0) EXCEPT !.user = userID]
             /\ UNCHANGED <<requirements, evidence, reports, audit_logs, nextId, now,
                            organizations, trace, faults, calls>>

\* Variant: the caller's own id is a target like any other.
handleDeleteUserAnyTarget(c, userID) ==
    IF ~RequireOrganization(c) \/ ~requireAdmin(c)
    THEN AnswerUser(c, userID, StatusForbidden)
    ELSE IF GetUser(userID).err
    THEN AnswerUser(c, userID, StatusNotFound)
    ELSE IF GetUser(userID).doc.OrganizationID # c.OrganizationID
    THEN AnswerUser(c, userID, StatusForbidden)
    ELSE IF userID \notin DOMAIN accounts
    THEN AnswerUser(c, userID, StatusInternalServerError)
    ELSE LET user == [GetUser(userID).doc EXCEPT !.Status = "inactive"]
         IN  /\ accounts' = DeleteUser(userID)
             /\ UpdateUser(user)
             /\ resp' = [Response(c, 0, StatusOK, 0) EXCEPT !.user = userID]
             /\ UNCHANGED <<requirements, evidence, reports, audit_logs, nextId, now,
                            organizations, trace, faults, calls>>

\* DELETE /users/{userID} (admin)
handleDeleteUser(c, userID) ==
    IF ~RequireOrganization(c) \/ ~requireAdmin(c)
    THEN AnswerUser(c, userID, StatusForbidden)
    ELSE IF userID = c.UID
    THEN AnswerUser(c, userID, StatusBadRequest)
    ELSE IF GetUser(userID).err
    THEN AnswerUser(c, userID, StatusNotFound)
    ELSE IF GetUser(userID).doc.OrganizationID # c.OrganizationID
    THEN AnswerUser(c, userID, StatusForbidden)
    ELSE IF userID \notin DOMAIN accounts
    THEN AnswerUser(c, userID, StatusInternalServerError)
    ELSE LET user == [GetUser(userID).doc EXCEPT !.Status = "inactive"]
         IN  /\ accounts' = DeleteUser(userID)
             /\ UpdateUser(user)
             /\ resp' = [Response(c, 0, StatusOK, 0) EXCEPT !.user = userID]
             /\ UNCHANGED <<requirements, evidence, reports, audit_logs, nextId, now,
                            organizations, trace, faults, calls>>

\* Variant: no look-up of the email before the account is created.
handleRegisterAnyEmail(body) ==
    LET nobody == [UID |-> "", Email |-> body.email, OrganizationID |-> "", Role |-> ""]
    IN  IF ~isValidPassword(body.password)
        THEN Answer(nobody, 0, StatusBadRequest)
        ELSE LET uid == NewUID
                 org == [NoOrganization EXCEPT
                           !.Name = body.organization_name, !.Industry = body.industry,
                           !.EmployeeCount = body.employee_count,
                           !.RegulatoryFramework = body.regulatory_framework,
                           !.Subscription = [Tier |-> TierStarter, Status |-> "trial",
                                             CancelAtPeriodEnd |-> FALSE,
                                             MaxUsers |-> GetMaxUsers(TierStarter),
                                             MonthlyPrice |-> GetMonthlyPrice(TierStarter)]]
                 user == [NoUser EXCEPT !.UID = uid, !.Email = body.email,
                                        !.OrganizationID = NewOrgID, !.Role = RoleAdmin]
                 c == [UID |-> uid, Email |-> body.email, OrganizationID |-> NewOrgID,
                       Role |-> RoleAdmin]
             IN  /\ DOMAIN organizations # Orgs
                 /\ UIDs \ (DOMAIN users \cup DOMAIN accounts) # {}
                 /\ AuditRoom
                 /\ CreateOrganization(org)
                 /\ CreateUser(user)
                 /\ accounts' = Put(accounts, uid, [organizationId |-> NewOrgID,
                                                    role |-> RoleAdmin])
                 /\ CreateAuditLog(AuditLog(c, ActionOrgCreated, "organization", NewOrgID,
                                            <<"Organization created: ", org.Name>>,
                                            NoChanges, <<>>))
                 /\ resp' = [Response(c, 0, StatusCreated, 0) EXCEPT !.user = uid]
                 /\ Record(c, Event("register", 0, <<>>))
                 /\ UNCHANGED <<requirements, evidence, reports, nextId, now, faults, calls>>

\* POST /auth/register (no token): the account with the identity provider,
\* the organization, its first user, the claims of the account, the audit
\* entry.
handleRegister(body) ==
    LET nobody == [UID |-> "", Email |-> body.email, OrganizationID |-> "", Role |-> ""]
    IN  IF ~isValidPassword(body.password)
        THEN Answer(nobody, 0, StatusBadRequest)
        ELSE IF ~GetUserByEmail(body.email).err
        THEN Answer(nobody, 0, StatusConflict)
        ELSE LET uid == NewUID
                 org == [NoOrganization EXCEPT
                           !.Name = body.organization_name, !.Industry = body.industry,
                           !.EmployeeCount = body.employee_count,
                           !.RegulatoryFramework = body.regulatory_framework,
                           !.Subscription = [Tier |-> TierStarter, Status |-> "trial",
                                             CancelAtPeriodEnd |-> FALSE,
                                             MaxUsers |-> GetMaxUsers(TierStarter),
                                             MonthlyPrice |-> GetMonthlyPrice(TierStarter)]]
                 user == [NoUser EXCEPT !.UID = uid, !.Email = body.email,
                                        !.OrganizationID = NewOrgID, !.Role = RoleAdmin]
                 c == [UID |-> uid, Email |-> body.email, OrganizationID |-> NewOrgID,
                       Role |-> RoleAdmin]
             IN  /\ DOMAIN organizations # Orgs
                 /\ UIDs \ (DOMAIN users \cup DOMAIN accounts) # {}
                 /\ AuditRoom
                 /\ CreateOrganization(org)
                 /\ CreateUser(user)
                 /\ accounts' = Put(accounts, uid, [organizationId |-> NewOrgID,
                                                    role |-> RoleAdmin])
                 /\ CreateAuditLog(AuditLog(c, ActionOrgCreated, "organization", NewOrgID,
                                            <<"Organization created: ", org.Name>>,
                                            NoChanges, <<>>))
                 /\ resp' = [Response(c, 0, StatusCreated, 0) EXCEPT !.user = uid]
                 /\ Record(c, Event("register", 0, <<>>))
                 /\ UNCHANGED <<requirements, evidence, reports, nextId, now, faults, calls>>

----------------------------------------------------------------------------
(* internal/api: report handlers *)

\* POST /reports (any role)
handleGenerateReport(c, type, requirementIDs, title) ==
    IF ~RequireOrganization(c)
    THEN Answer(c, 0, StatusForbidden)
    ELSE IF type # "requirement_detail" /\ type # "comprehensive"
    THEN Answer(c, 0, StatusBadRequest)
    ELSE LET report == [NoReport EXCEPT
                          !.OrganizationID = c.OrganizationID, !.Title = title,
                          !.Type = type, !.RequirementIDs = requirementIDs,
                          !.Status = "pending", !.GeneratedBy = c.UID]
         IN  /\ nextId + 1 <= MaxIds
             /\ AuditRoom
             /\ CreateReport(report, 1)
             /\ nextId' = nextId + 1
             /\ CreateAuditLog(AuditLog(c, ActionReportGenerated, "report", NewUUID(1),
                                        <<"Generated report: ", type, title>>,
                                        NoChanges, <<>>))
             /\ resp' = Response(c, 0, StatusAccepted, NewUUID(1))
             /\ Record(c, Event("create-report", NewUUID(1), requirementIDs))
             /\ UNCHANGED <<requirements, evidence, now, others>>

\* GET /reports/{reportID}
handleGetReport(c, reportID) ==
    IF ~RequireOrganization(c)
    THEN Answer(c, reportID, StatusForbidden)
    ELSE IF GetReport(c.OrganizationID, reportID).err
    THEN Answer(c, reportID, StatusNotFound)
    ELSE /\ resp' = Response(c, reportID, StatusOK, GetReport(c.OrganizationID, reportID).doc.ID)
         /\ UNCHANGED <<requirements, evidence, reports, audit_logs, nextId, now, others, trace>>

\* GET /reports/{reportID}/download-url
handleGetReportDownloadURL(c, reportID) ==
    IF ~RequireOrganization(c)
    THEN Answer(c, reportID, StatusForbidden)
    ELSE IF GetReport(c.OrganizationID, reportID).err
    THEN Answer(c, reportID, StatusNotFound)
    ELSE IF GetReport(c.OrganizationID, reportID).doc.Status # "completed"
    THEN Answer(c, reportID, StatusBadRequest)
    ELSE Answer(c, reportID, StatusOK)

----------------------------------------------------------------------------
(* unnamed/part_011: the subscription routes *)

\* POST /subscription (admin)
handleCreateSubscription(c, tier) ==
    IF ~RequireOrganization(c) \/ ~requireAdmin(c)
    THEN Answer(c, 0, StatusForbidden)
    ELSE IF GetOrganization(c.OrganizationID).err
    THEN Answer(c, 0, StatusNotFound)
    ELSE LET old == GetOrganization(c.OrganizationID).doc
             org == [old EXCEPT
                       !.Subscription.Tier = tier,
                       !.Subscription.Status = "active",
                       !.Subscription.MaxUsers = GetMaxUsers(tier),
                       !.Subscription.MonthlyPrice = GetMonthlyPrice(tier)]
         IN  /\ AuditRoom
             /\ UpdateOrganization(org)
             /\ CreateAuditLog(AuditLog(c, ActionSubscriptionUpdated, "subscription", org.ID,
                                        <<"Subscription created: ", tier, " tier">>,
                                        NoChanges, <<>>))
             /\ resp' = Response(c, 0, StatusCreated, 0)
             /\ Record(c, Event("create-subscription", 0, <<>>))
             /\ UNCHANGED <<requirements, evidence, reports, nextId, now, users, accounts,
                            faults, calls>>

\* Variant: the tier is stored and the seats are left as they were.
handleUpdateSubscriptionTierOnly(c, tier) ==
    IF ~RequireOrganization(c) \/ ~requireAdmin(c)
    THEN Answer(c, 0, StatusForbidden)
    ELSE IF GetOrganization(c.OrganizationID).err
    THEN Answer(c, 0, StatusNotFound)
    ELSE LET old == GetOrganization(c.OrganizationID).doc
             org == [old EXCEPT
                       !.Subscription.Tier = tier,
                       !.Subscription.MonthlyPrice = GetMonthlyPrice(tier)]
         IN  /\ AuditRoom
             /\ UpdateOrganization(org)
             /\ CreateAuditLog(AuditLog(c, ActionSubscriptionUpdated, "subscription", org.ID,
                                        <<"Subscription updated from ", old.Subscription.Tier,
                                          " to ", tier>>, NoChanges, <<>>))
             /\ resp' = Response(c, 0, StatusOK, 0)
             /\ Record(c, Event("update-subscription", 0, <<>>))
             /\ UNCHANGED <<requirements, evidence, reports, nextId, now, users, accounts,
                            faults, calls>>

\* PUT /subscription (admin)
handleUpdateSubscription(c, tier) ==
    IF ~RequireOrganization(c) \/ ~requireAdmin(c)
    THEN Answer(c, 0, StatusForbidden)
    ELSE IF GetOrganization(c.OrganizationID).err
    THEN Answer(c, 0, StatusNotFound)
    ELSE LET old == GetOrganization(c.OrganizationID).doc
             org == [old EXCEPT
                       !.Subscription.Tier = tier,
                       !.Subscription.MaxUsers = GetMaxUsers(tier),
                       !.Subscription.MonthlyPrice = GetMonthlyPrice(tier)]
         IN  /\ AuditRoom
             /\ UpdateOrganization(org)
             /\ CreateAuditLog(AuditLog(c, ActionSubscriptionUpdated, "subscription", org.ID,
                                        <<"Subscription updated from ", old.Subscription.Tier,
                                          " to ", tier>>, NoChanges, <<>>))
             /\ resp' = Response(c, 0, StatusOK, 0)
             /\ Record(c, Event("update-subscription", 0, <<>>))
             /\ UNCHANGED <<requirements, evidence, reports, nextId, now, users, accounts,
                            faults, calls>>

\* POST /subscription/cancel (admin): no audit entry is written.
handleCancelSubscription(c, confirmOrganizationName) ==
    IF ~RequireOrganization(c) \/ ~requireAdmin(c)
    THEN Answer(c, 0, StatusForbidden)
    ELSE IF GetOrganization(c.OrganizationID).err
    THEN Answer(c, 0, StatusNotFound)
    ELSE IF confirmOrganizationName # GetOrganization(c.OrganizationID).doc.Name
    THEN Answer(c, 0, StatusBadRequest)
    ELSE LET old == GetOrganization(c.OrganizationID).doc
             org == [old EXCEPT !.Subscription.CancelAtPeriodEnd = TRUE]
         IN  /\ UpdateOrganization(org)
             /\ resp' = Response(c, 0, StatusOK, 0)
             /\ UNCHANGED <<requirements, evidence, reports, audit_logs, nextId, now,
                            users, accounts, faults, calls, trace>>

----------------------------------------------------------------------------
(* unnamed/part_009: the audit log routes *)

DigitValue(ch) ==
    CASE ch = "0" -> 0 [] ch = "1" -> 1 [] ch = "2" -> 2 [] ch = "3" -> 3
      [] ch = "4" -> 4 [] ch = "5" -> 5 [] ch = "6" -> 6 [] ch = "7" -> 7
      [] ch = "8" -> 8 [] ch = "9" -> 9 [] OTHER -> -1

RECURSIVE ParseDigits(_, _)
ParseDigits(s, acc) ==
    IF s = <<>> THEN [ok |-> TRUE, n |-> acc]
    ELSE IF DigitValue(Head(s)) < 0 THEN [ok |-> FALSE, n |-> 0]
    ELSE ParseDigits(Tail(s), 10 * acc + DigitValue(Head(s)))

\* strconv.Atoi on a string given by its characters: an optional sign, then
\* one digit or more; anything else is an error.
Atoi(s) ==
    LET signed == s # <<>> /\ Head(s) \in {"+", "-"}
        digits == IF signed THEN Tail(s) ELSE s
        parsed == ParseDigits(digits, 0)
    IN  IF digits = <<>> \/ ~parsed.ok THEN [ok |-> FALSE, n |-> 0]
        ELSE IF signed /\ Head(s) = "-" THEN [ok |-> TRUE, n |-> 0 - parsed.n]
        ELSE parsed

\* The filters map: one key for every query parameter of keys that is not "".
QueryFilters(q, keys) == [k \in {k \in keys : q[k] # ""} |-> q[k]]

\* GET /audit-logs
handleListAuditLogs(c, q) ==
    IF ~RequireOrganization(c)
    THEN Answer(c, 0, StatusForbidden)
    ELSE LET filters == QueryFilters(q, {"user_id", "action", "resource_type"})
             limit == IF q.limit # <<>> /\ Atoi(q.limit).ok /\ Atoi(q.limit).n > 0
                      THEN Atoi(q.limit).n ELSE DefaultLimit
             logs == ListAuditLogs(c.OrganizationID, filters, limit)
         IN  /\ resp' = [Response(c, 0, StatusOK, 0) EXCEPT
                           !.count = Len(logs), !.rows = logs]
             /\ UNCHANGED <<requirements, evidence, reports, audit_logs, nextId, now,
                            others, trace>>

\* One line of the CSV file, by the header's column names.  The model's
\* clock counts whole hours, which RFC 3339 writes without loss.
ExportRow(log) ==
    [Timestamp |-> log.Timestamp, UserEmail |-> log.UserEmail, UserName |-> log.UserID,
     Action |-> log.Action, ResourceType |-> log.ResourceType,
     ResourceID |-> log.ResourceID, Description |-> log.Description, IPAddress |-> ""]

\* GET /audit-logs/export: rows holds the lines after the header.
handleExportAuditLogs(c, q) ==
    IF ~RequireOrganization(c)
    THEN Answer(c, 0, StatusForbidden)
    ELSE LET filters == QueryFilters(q, {"user_id", "action"})
             logs == ListAuditLogs(c.OrganizationID, filters, ExportLimit)
         IN  IF Len(logs) >= ExportLimit
             THEN Answer(c, 0, StatusBadRequest)
             ELSE /\ resp' = [Response(c, 0, StatusOK, 0) EXCEPT
                                !.count = Len(logs),
                                !.rows = [i \in 1..Len(logs) |-> ExportRow(logs[i])]]
                  /\ UNCHANGED <<requirements, evidence, reports, audit_logs, nextId,
                                 now, others, trace>>

----------------------------------------------------------------------------
(* The system *)

NoResponse ==
    [org |-> "", uid |-> "", named |-> 0, status |-> 0, id |-> 0, rstatus |-> "",
     count |-> 0, list |-> {}, metrics |-> NoMetrics, user |-> "", rows |-> <<>>]

\* The registered organizations and users: every organization on the starter
\* tier, every user active with a Firebase account carrying its claims.
Registered ==
    /\ users =
          [u \in {"u1", "u2", "u3"} |->
             [UID |-> u,
              Email |-> CASE u = "u1" -> "u1@a.example" [] u = "u2" -> "u2@b.example"
                          [] u = "u3" -> "u3@a.example",
              OrganizationID |-> IF u = "u2" THEN "orgB" ELSE "orgA",
              Role |-> CASE u = "u1" -> RoleAdmin [] u = "u2" -> RoleComplianceOfficer
                         [] u = "u3" -> RoleViewer,
              Status |-> "active"]]
    /\ organizations =
          [o \in Orgs |->
             [NoOrganization EXCEPT
                !.ID = o, !.Name = IF o = "orgA" THEN "Acme RIA" ELSE "Beta Insurance",
                !.Industry = "financial_services", !.EmployeeCount = "1-10",
                !.RegulatoryFramework = "sec_ria",
                !.Subscription = [Tier |-> TierStarter, Status |-> "trial",
                                  CancelAtPeriodEnd |-> FALSE,
                                  MaxUsers |-> GetMaxUsers(TierStarter),
                                  MonthlyPrice |-> GetMonthlyPrice(TierStarter)],
                !.ActiveUserCount = 1]]
    /\ accounts =
          [u \in {"u1", "u2", "u3"} |->
             [organizationId |-> IF u = "u2" THEN "orgB" ELSE "orgA",
              role |-> CASE u = "u1" -> RoleAdmin [] u = "u2" -> RoleComplianceOfficer
                         [] u = "u3" -> RoleViewer]]

\* No storage call fails and no store call is in progress.
NoCalls == [base |-> <<>>, procs |-> <<>>]

Quiet ==
    /\ faults = NoFaults
    /\ calls = NoCalls

Init ==
    /\ Registered
    /\ Quiet
    /\ requirements = [o \in Orgs |-> <<>>]
    /\ evidence = [o \in Orgs |-> <<>>]
    /\ reports = [o \in Orgs |-> <<>>]
    /\ audit_logs = [o \in Orgs |-> <<>>]
    /\ nextId = 0
    /\ now = 0
    /\ resp = NoResponse
    /\ trace = [o \in Orgs |-> <<>>]

Next ==
    \/ \E c \in Callers, b \in UploadBodies :
          handleGenerateUploadURL(c, b.file_name, b.file_type, b.file_size)
    \/ \E c \in Callers, e \in IdSpace, b \in CreateEvidenceBodies :
          handleCreateEvidence(c, e, b.title, b.description, b.evidence_date,
                               b.requirement_ids)
    \/ \E c \in Callers, e \in IdSpace : handleGetEvidence(c, e)
    \/ \E c \in Callers, e \in IdSpace, b \in UpdateEvidenceBodies :
          handleUpdateEvidence(c, e, b.title, b.description, b.requirement_ids)
    \/ \E c \in Callers, e \in IdSpace : handleDeleteEvidence(c, e)
    \/ \E c \in Callers, e \in IdSpace : handleGenerateDownloadURL(c, e)
    \/ \E c \in Callers, t \in TemplateIDs, n \in NotesIn : handleCreateRequirement(c, t, n)
    \/ \E c \in Callers, r \in IdSpace : handleGetRequirement(c, r)
    \/ \E c \in Callers, r \in IdSpace, n \in NotesIn, d \in DueDatesIn :
          handleUpdateRequirement(c, r, n, d)
    \/ \E c \in Callers, r \in IdSpace : handleDeactivateRequirement(c, r)
    \/ \E c \in Callers, b \in GenerateReportBodies :
          handleGenerateReport(c, b.type, b.requirement_ids, b.title)
    \/ \E c \in Callers, r \in IdSpace : handleGetReport(c, r)
    \/ \E c \in Callers, r \in IdSpace : handleGetReportDownloadURL(c, r)

Spec == Init /\ [][Next]_vars

\* The same requests against a store whose audit writes all fail.
InitFault ==
    /\ Registered
    /\ faults = [audit |-> TRUE, counters |-> {}]
    /\ calls = NoCalls
    /\ requirements = [o \in Orgs |-> <<>>]
    /\ evidence = [o \in Orgs |-> <<>>]
    /\ reports = [o \in Orgs |-> <<>>]
    /\ audit_logs = [o \in Orgs |-> <<>>]
    /\ nextId = 0
    /\ now = 0
    /\ resp = NoResponse
    /\ trace = [o \in Orgs |-> <<>>]

SpecFault == InitFault /\ [][Next]_vars

----------------------------------------------------------------------------
(* The status derivation on its own: one stored requirement with any       *)
(* evidence count and due date, read at any clock reading.                 *)

DueDates ==
    {NoDate} \cup {[present |-> TRUE, at |-> h] : h \in (0 - MaxPastHours)..MaxDueHours}

InitCalc ==
    /\ Registered
    /\ Quiet
    /\ \E n \in (0 - 1)..MaxCount, d \in DueDates :
          requirements =
              [o \in Orgs |->
                 IF o = "orgA"
                 THEN Put(<<>>, 1, [NoRequirement EXCEPT
                                      !.ID = 1, !.OrganizationID = "orgA",
                                      !.TemplateID = "sec-ria-001",
                                      !.Title = "Code of Ethics",
                                      !.Description = Templates["sec-ria-001"].Description,
                                      !.Category = Templates["sec-ria-001"].Category,
                                      !.Authority = Templates["sec-ria-001"].Authority,
                                      !.EvidenceTypes = Templates["sec-ria-001"].EvidenceTypes,
                                      !.Frequency = "annual",
                                      !.Status = StatusNotStarted,
                                      !.NextDueDate = d, !.EvidenceCount = n,
                                      !.ActivatedBy = "u1", !.IsActive = TRUE])
                 ELSE <<>>]
    /\ evidence = [o \in Orgs |-> <<>>]
    /\ reports = [o \in Orgs |-> <<>>]
    /\ audit_logs = [o \in Orgs |-> <<>>]
    /\ nextId = 1
    /\ now \in 0..MaxTime
    /\ resp = NoResponse
    /\ trace = [o \in Orgs |-> <<>>]

NextCalc == \E c \in Callers, r \in IdSpace : handleGetRequirement(c, r)

SpecCalc == InitCalc /\ [][NextCalc]_vars

----------------------------------------------------------------------------
(* The reads of requirements: two requirements of orgA and one of orgB     *)
(* with any evidence count and due date, read by get, list and dashboard   *)
(* while the clock advances and requirements are deactivated.              *)

\* time.Now() moves on between requests.
Tick ==
    /\ now < MaxTime
    /\ now' = now + 1
    /\ UNCHANGED <<requirements, evidence, reports, audit_logs, nextId, resp, trace, others>>

ReadDueDates ==
    {NoDate} \cup {[present |-> TRUE, at |-> h] :
                      h \in {0 - MaxPastHours, 8 * HoursPerDay, MaxDueHours, 4 * MaxDueHours}}

StoredRequirement(o, id, n, d, active) ==
    [NoRequirement EXCEPT
       !.ID = id, !.OrganizationID = o, !.TemplateID = "sec-ria-001",
       !.Title = "Code of Ethics", !.Description = Templates["sec-ria-001"].Description,
       !.Category = Templates["sec-ria-001"].Category, !.Authority = Templates["sec-ria-001"].Authority,
       !.EvidenceTypes = Templates["sec-ria-001"].EvidenceTypes,
       !.Frequency = "annual", !.Status = StatusNotStarted,
       !.NextDueDate = d, !.EvidenceCount = n, !.ActivatedBy = "u1", !.IsActive = active]

InitRead ==
    /\ Registered
    /\ Quiet
    /\ \E n1 \in 0..MaxCount, d1 \in ReadDueDates, d2 \in {[present |-> TRUE, at |-> 8 * HoursPerDay]} :
          requirements =
              [o \in Orgs |->
                 IF o = "orgA"
                 THEN Put(Put(<<>>, 1, StoredRequirement("orgA", 1, n1, d1, TRUE)),
                          2, StoredRequirement("orgA", 2, 1, d2, TRUE))
                 ELSE Put(<<>>, 3, StoredRequirement("orgB", 3, 1, NoDate, TRUE))]
    /\ evidence =
          [o \in Orgs |->
             IF o = "orgA"
             THEN Put(<<>>, 4, [NoEvidence EXCEPT
                                  !.ID = 4, !.OrganizationID = "orgA",
                                  !.Title = "Code of Ethics Ack 2025",
                                  !.Source = SourceManualUpload, !.FileName = "ack.pdf",
                                  !.FileType = "application/pdf", !.FileSize = 1,
                                  !.RequirementIDs = <<1>>, !.UploadedBy = "u1",
                                  !.Status = "active"])
             ELSE <<>>]
    /\ reports = [o \in Orgs |-> <<>>]
    /\ audit_logs = [o \in Orgs |-> <<>>]
    /\ nextId = 4
    /\ now = 0
    /\ resp = NoResponse
    /\ trace = [o \in Orgs |-> <<>>]

NextRead ==
    \/ \E c \in Callers, r \in IdSpace : handleGetRequirement(c, r)
    \/ \E c \in Callers : handleListRequirements(c)
    \/ \E c \in Callers : handleGetDashboard(c)
    \/ \E c \in Callers, r \in IdSpace : handleDeactivateRequirement(c, r)
    \/ Tick

SpecRead == InitRead /\ [][NextRead]_vars

----------------------------------------------------------------------------
(* The write endpoints under every role.  The start is the state orgA's    *)
(* admin reaches by activating a requirement, requesting an upload and     *)
(* completing it; from there the admin, the compliance officer and a       *)
(* viewer call every endpoint behind requireWrite or requireAdmin.         *)

Populated ==
    /\ requirements =
          [o \in Orgs |->
             IF o = "orgA"
             THEN Put(<<>>, 1, [NoRequirement EXCEPT
                                  !.ID = 1, !.OrganizationID = "orgA",
                                  !.TemplateID = "sec-ria-001", !.Title = "Code of Ethics",
                                  !.Description = Templates["sec-ria-001"].Description,
                                  !.Category = Templates["sec-ria-001"].Category,
                                  !.Authority = Templates["sec-ria-001"].Authority,
                                  !.EvidenceTypes = Templates["sec-ria-001"].EvidenceTypes,
                                  !.Frequency = "annual", !.Status = StatusNotStarted,
                                  !.Notes = "n1", !.ActivatedBy = "u1", !.IsActive = TRUE])
             ELSE <<>>]
    /\ evidence =
          [o \in Orgs |->
             IF o = "orgA"
             THEN Put(<<>>, 3, [NoEvidence EXCEPT
                                  !.ID = 3, !.OrganizationID = "orgA",
                                  !.Title = "Code of Ethics Ack 2025",
                                  !.Description = "signed",
                                  !.Source = SourceManualUpload,
                                  !.EvidenceDate = 482472,
                                  !.FileURL = <<"orgA", "evidence", 2, "ack.pdf">>,
                                  !.FileName = "ack.pdf", !.FileSize = MaxFileSize,
                                  !.FileType = "application/pdf",
                                  !.RequirementIDs = <<1>>, !.UploadedBy = "u1",
                                  !.Status = "active"])
             ELSE <<>>]
    /\ reports = [o \in Orgs |-> <<>>]
    /\ audit_logs =
          [o \in Orgs |->
             IF o = "orgA"
             THEN << [OrganizationID |-> "orgA", Timestamp |-> 0, UserID |-> "u1",
                      UserEmail |-> "u1@a.example", Action |-> ActionRequirementActivated,
                      ResourceType |-> "requirement", ResourceID |-> 1,
                      Description |-> <<"Activated requirement: ", "Code of Ethics">>,
                      Changes |-> NoChanges, Metadata |-> <<>>],
                     [OrganizationID |-> "orgA", Timestamp |-> 0, UserID |-> "u1",
                      UserEmail |-> "u1@a.example", Action |-> ActionEvidenceCreated,
                      ResourceType |-> "evidence", ResourceID |-> 3,
                      Description |-> <<"Uploaded evidence: ", "Code of Ethics Ack 2025">>,
                      Changes |-> NoChanges, Metadata |-> <<>>] >>
             ELSE <<>>]
    /\ nextId = 3
    /\ now = 0
    /\ trace =
          [o \in Orgs |->
             IF o = "orgA"
             THEN <<Event("create-requirement", 1, <<>>), Event("upload-url", 3, <<>>),
                    Event("create-evidence", 3, <<1>>)>>
             ELSE <<>>]

InitGate ==
    /\ Registered
    /\ Quiet
    /\ Populated
    /\ resp = [NoResponse EXCEPT !.org = "orgA", !.uid = "u1", !.named = 3,
                                 !.status = StatusCreated, !.id = 3]

NextGate ==
    \/ \E c \in Callers \cup Viewers, b \in UploadBodies :
          handleGenerateUploadURL(c, b.file_name, b.file_type, b.file_size)
    \/ \E c \in Callers \cup Viewers, e \in IdSpace, b \in CreateEvidenceBodies :
          handleCreateEvidence(c, e, b.title, b.description, b.evidence_date,
                               b.requirement_ids)
    \/ \E c \in Callers \cup Viewers, e \in IdSpace, b \in UpdateEvidenceBodies :
          handleUpdateEvidence(c, e, b.title, b.description, b.requirement_ids)
    \/ \E c \in Callers \cup Viewers, e \in IdSpace : handleDeleteEvidence(c, e)
    \/ \E c \in Callers \cup Viewers, t \in TemplateIDs, n \in NotesIn :
          handleCreateRequirement(c, t, n)
    \/ \E c \in Callers \cup Viewers, r \in IdSpace, n \in NotesIn, d \in DueDatesIn :
          handleUpdateRequirement(c, r, n, d)
    \/ \E c \in Callers \cup Viewers, r \in IdSpace : handleDeactivateRequirement(c, r)
    \/ \E c \in Callers \cup Viewers, b \in OrganizationBodies : handleUpdateOrganization(c, b)
    \/ \E c \in Callers \cup Viewers, b \in InviteBodies : handleInviteUser(c, b.email, b.role)
    \/ \E c \in Callers \cup Viewers, u \in UIDs, role \in RolesIn :
          handleUpdateUserRole(c, u, role)
    \/ \E c \in Callers \cup Viewers, u \in UIDs : handleDeleteUser(c, u)

SpecGate == InitGate /\ [][NextGate]_vars

----------------------------------------------------------------------------
(* Registration: the store starts without organizations and users; people  *)
(* register and then call the API with the token of their account.         *)

\* The verified claims of the token of account uid.
Token(uid) ==
    [UID |-> uid, Email |-> users[uid].Email,
     OrganizationID |-> accounts[uid].organizationId, Role |-> accounts[uid].role]

InitRegister ==
    /\ Quiet
    /\ users = <<>>
    /\ organizations = <<>>
    /\ accounts = <<>>
    /\ requirements = [o \in Orgs |-> <<>>]
    /\ evidence = [o \in Orgs |-> <<>>]
    /\ reports = [o \in Orgs |-> <<>>]
    /\ audit_logs = [o \in Orgs |-> <<>>]
    /\ nextId = 0
    /\ now = 0
    /\ resp = NoResponse
    /\ trace = [o \in Orgs |-> <<>>]

NextRegister ==
    \/ \E b \in RegisterBodies : handleRegister(b)
    \/ \E u \in DOMAIN accounts, t \in TemplateIDs, n \in NotesIn :
          handleCreateRequirement(Token(u), t, n)
    \/ \E u \in DOMAIN accounts, b \in InviteBodies :
          handleInviteUser(Token(u), b.email, b.role)
    \/ \E u \in DOMAIN accounts, v \in UIDs, role \in RolesIn :
          handleUpdateUserRole(Token(u), v, role)
    \/ \E u \in DOMAIN accounts, v \in UIDs : handleDeleteUser(Token(u), v)

SpecRegister == InitRegister /\ [][NextRegister]_vars

----------------------------------------------------------------------------
(* The permission check on its own: two stored users with any role, asked  *)
(* about any action.                                                       *)

InitPermit ==
    /\ Quiet
    /\ \E r1 \in RolesStored, r2 \in RolesStored :
          /\ users =
                [u \in {"u1", "u2"} |->
                   [UID |-> u,
                    Email |-> IF u = "u1" THEN "u1@a.example" ELSE "u2@b.example",
                    OrganizationID |-> IF u = "u1" THEN "orgA" ELSE "orgB",
                    Role |-> IF u = "u1" THEN r1 ELSE r2,
                    Status |-> "active"]]
          /\ accounts =
                [u \in {"u1", "u2"} |->
                   [organizationId |-> IF u = "u1" THEN "orgA" ELSE "orgB",
                    role |-> IF u = "u1" THEN r1 ELSE r2]]
    /\ organizations =
          [o \in Orgs |->
             [NoOrganization EXCEPT
                !.ID = o, !.Name = IF o = "orgA" THEN "Acme RIA" ELSE "Beta Insurance",
                !.Industry = "financial_services", !.EmployeeCount = "1-10",
                !.RegulatoryFramework = "sec_ria",
                !.Subscription = [Tier |-> TierStarter, Status |-> "trial",
                                  CancelAtPeriodEnd |-> FALSE,
                                  MaxUsers |-> GetMaxUsers(TierStarter),
                                  MonthlyPrice |-> GetMonthlyPrice(TierStarter)],
                !.ActiveUserCount = 1]]
    /\ requirements = [o \in Orgs |-> <<>>]
    /\ evidence = [o \in Orgs |-> <<>>]
    /\ reports = [o \in Orgs |-> <<>>]
    /\ audit_logs = [o \in Orgs |-> <<>>]
    /\ nextId = 0
    /\ now = 0
    /\ resp = NoResponse
    /\ trace = [o \in Orgs |-> <<>>]

\* A call of HasPermission on the stored user uid: resp keeps the user, the
\* action (in rstatus) and the result, 200 for true and 403 for false.
AskPermission(uid, action) ==
    /\ uid \in DOMAIN users
    /\ resp' = [NoResponse EXCEPT
                  !.user = uid, !.rstatus = action,
                  !.status = IF HasPermission(users[uid], action)
                             THEN StatusOK ELSE StatusForbidden]
    /\ UNCHANGED <<requirements, evidence, reports, audit_logs, nextId, now, others, trace>>

NextPermit == \E uid \in {"u1", "u2"}, action \in ActionsIn : AskPermission(uid, action)

SpecPermit == InitPermit /\ [][NextPermit]_vars

----------------------------------------------------------------------------
(* Seats: orgA on the starter tier with nine or ten user documents, its    *)
(* admin inviting users and removing members.                              *)

\* The users of orgA beside its admin u1 and its viewer u3.
Members == {"m3", "m4", "m5", "m6", "m7", "m8", "m9", "m10"}

InitSeats ==
    /\ Quiet
    /\ \E present \in {Members, Members \ {"m10"}} :
          /\ users =
                [u \in {"u1", "u2", "u3"} \cup present |->
                   [UID |-> u,
                    Email |-> <<u, "@", IF u = "u2" THEN "b.example" ELSE "a.example">>,
                    OrganizationID |-> IF u = "u2" THEN "orgB" ELSE "orgA",
                    Role |-> CASE u = "u1" -> RoleAdmin
                               [] u = "u2" -> RoleComplianceOfficer
                               [] OTHER -> RoleViewer,
                    Status |-> "active"]]
          /\ accounts =
                [u \in {"u1", "u2", "u3"} \cup present |->
                   [organizationId |-> IF u = "u2" THEN "orgB" ELSE "orgA",
                    role |-> CASE u = "u1" -> RoleAdmin
                               [] u = "u2" -> RoleComplianceOfficer
                               [] OTHER -> RoleViewer]]
    /\ organizations =
          [o \in Orgs |->
             [NoOrganization EXCEPT
                !.ID = o, !.Name = IF o = "orgA" THEN "Acme RIA" ELSE "Beta Insurance",
                !.Industry = "financial_services", !.EmployeeCount = "1-10",
                !.RegulatoryFramework = "sec_ria",
                !.Subscription = [Tier |-> TierStarter, Status |-> "trial",
                                  CancelAtPeriodEnd |-> FALSE,
                                  MaxUsers |-> GetMaxUsers(TierStarter),
                                  MonthlyPrice |-> GetMonthlyPrice(TierStarter)],
                !.ActiveUserCount = 1]]
    /\ requirements = [o \in Orgs |-> <<>>]
    /\ evidence = [o \in Orgs |-> <<>>]
    /\ reports = [o \in Orgs |-> <<>>]
    /\ audit_logs = [o \in Orgs |-> <<>>]
    /\ nextId = 0
    /\ now = 0
    /\ resp = NoResponse
    /\ trace = [o \in Orgs |-> <<>>]

NextSeats ==
    \/ \E c \in Callers, b \in InviteBodies : handleInviteUser(c, b.email, b.role)
    \/ \E c \in Callers, u \in {"u1", "u3"} \cup Members : handleDeleteUser(c, u)

SpecSeats == InitSeats /\ [][NextSeats]_vars

----------------------------------------------------------------------------
(* Tokens with incomplete claims: the routes of the organization group,    *)
(* reads and writes, called on the populated store by the two regular      *)
(* callers and by the two callers of Partial.                              *)

NextClaims ==
    \/ \E c \in Callers \cup Partial : handleGetDashboard(c)
    \/ \E c \in Callers \cup Partial : handleListRequirements(c)
    \/ \E c \in Callers \cup Partial, r \in IdSpace : handleGetRequirement(c, r)
    \/ \E c \in Callers \cup Partial : handleListEvidence(c, "")
    \/ \E c \in Callers \cup Partial, e \in IdSpace : handleGetEvidence(c, e)
    \/ \E c \in Callers \cup Partial, b \in GenerateReportBodies :
          handleGenerateReport(c, b.type, b.requirement_ids, b.title)
    \/ \E c \in Callers \cup Partial, r \in IdSpace : handleGetReport(c, r)
    \/ \E c \in Callers \cup Partial, r \in IdSpace : handleDeactivateRequirement(c, r)
    \/ \E c \in Callers \cup Partial, e \in IdSpace : handleDeleteEvidence(c, e)

SpecClaims == InitGate /\ [][NextClaims]_vars

----------------------------------------------------------------------------
(* Store calls running at the same time: up to MaxProcs calls of           *)
(* CreateEvidence and DeleteEvidence on orgA, each a sequence of Firestore *)
(* requests (the document write, then one counter update per entry of      *)
(* requirement_ids), interleaved request by request.  A counter update     *)
(* fails for the requirements in faults.counters.                          *)

Procs == 1..MaxProcs

\* Two requirements and one active evidence item naming both, under ids that
\* uuid.New() will not hand out again.
FirstRequirement == MaxIds + 1
SecondRequirement == MaxIds + 2
StoredEvidence == MaxIds + 3

BothRequirements == <<FirstRequirement, SecondRequirement>>

Call(op, pc) ==
    [op |-> op, pc |-> pc, evidenceID |-> 0, ids |-> <<>>,
     applied |-> <<>>, failed |-> <<>>, err |-> FALSE]

InitAdjust ==
    /\ Registered
    /\ \E n \in 0..MaxCount :
          /\ requirements =
                [o \in Orgs |->
                   IF o = "orgA"
                   THEN Put(Put(<<>>, FirstRequirement,
                                StoredRequirement("orgA", FirstRequirement, n, NoDate, TRUE)),
                            SecondRequirement,
                            StoredRequirement("orgA", SecondRequirement, 1, NoDate, TRUE))
                   ELSE <<>>]
          /\ \E ops \in [Procs -> {"create", "delete"}] :
                calls = [base |-> Put(Put(<<>>, FirstRequirement, n), SecondRequirement, 1),
                         procs |-> [p \in Procs |->
                                      Call(ops[p], IF ops[p] = "create" THEN "set" ELSE "get")]]
    /\ evidence =
          [o \in Orgs |->
             IF o = "orgA"
             THEN Put(<<>>, StoredEvidence,
                      [NoEvidence EXCEPT
                         !.ID = StoredEvidence, !.OrganizationID = "orgA",
                         !.Title = "Code of Ethics Ack 2025",
                         !.Source = SourceManualUpload, !.FileName = "ack.pdf",
                         !.FileType = "application/pdf", !.FileSize = 1,
                         !.RequirementIDs = BothRequirements, !.UploadedBy = "u1",
                         !.Status = "active"])
             ELSE <<>>]
    /\ faults \in [audit : {FALSE}, counters : SUBSET {FirstRequirement, SecondRequirement}]
    /\ reports = [o \in Orgs |-> <<>>]
    /\ audit_logs = [o \in Orgs |-> <<>>]
    /\ nextId = 0
    /\ now = 0
    /\ resp = NoResponse
    /\ trace = [o \in Orgs |-> <<>>]

\* CreateEvidence, first request: the document is written under a fresh id.
CreateEvidenceSet(p) ==
    LET call == calls.procs[p]
        doc == [NoEvidence EXCEPT
                  !.ID = NewUUID(1), !.OrganizationID = "orgA",
                  !.Title = "Code of Ethics Ack 2025", !.Source = SourceManualUpload,
                  !.FileName = "ack.pdf", !.FileType = "application/pdf", !.FileSize = 1,
                  !.RequirementIDs = BothRequirements, !.UploadedBy = "u1",
                  !.Status = "active"]
    IN  /\ call.op = "create" /\ call.pc = "set"
        /\ nextId + 1 <= MaxIds
        /\ evidence' = [evidence EXCEPT !["orgA"] = Put(@, doc.ID, doc)]
        /\ nextId' = nextId + 1
        /\ calls' = [calls EXCEPT !.procs[p] =
                        [call EXCEPT !.pc = "adjust", !.evidenceID = doc.ID,
                                     !.ids = doc.RequirementIDs]]
        /\ UNCHANGED <<requirements, reports, audit_logs, now, resp, trace,
                       users, organizations, accounts, faults>>

\* DeleteEvidence, first request: the document is read.
DeleteEvidenceGet(p, evidenceID) ==
    LET call == calls.procs[p]
        got == GetEvidence("orgA", evidenceID)
    IN  /\ call.op = "delete" /\ call.pc = "get"
        /\ calls' = [calls EXCEPT !.procs[p] =
                        IF got.err
                        THEN [call EXCEPT !.pc = "done", !.evidenceID = evidenceID,
                                          !.err = TRUE]
                        ELSE [call EXCEPT !.pc = "update", !.evidenceID = evidenceID,
                                          !.ids = got.doc.RequirementIDs]]
        /\ UNCHANGED <<requirements, evidence, reports, audit_logs, nextId, now, resp, trace,
                       users, organizations, accounts, faults>>

\* DeleteEvidence, second request: the status is set to deleted.
DeleteEvidenceUpdate(p) ==
    LET call == calls.procs[p]
    IN  /\ call.op = "delete" /\ call.pc = "update"
        /\ evidence' = [evidence EXCEPT !["orgA"][call.evidenceID].Status = "deleted"]
        /\ calls' = [calls EXCEPT !.procs[p] = [call EXCEPT !.pc = "adjust"]]
        /\ UNCHANGED <<requirements, reports, audit_logs, nextId, now, resp, trace,
                       users, organizations, accounts, faults>>

\* Variant: the first counter update that fails ends the call with its error.
AdjustNextOrReturn(p) ==
    LET call == calls.procs[p]
        reqID == Head(call.ids)
        after == IF call.op = "create"
                 THEN incrementRequirementEvidenceCount(requirements, "orgA", reqID)
                 ELSE decrementRequirementEvidenceCount(requirements, "orgA", reqID)
        failed == reqID \in faults.counters \/ reqID \notin DOMAIN requirements["orgA"]
    IN  /\ call.pc = "adjust" /\ call.ids # <<>>
        /\ requirements' = after
        /\ calls' = [calls EXCEPT !.procs[p] =
                        IF failed
                        THEN [call EXCEPT !.pc = "done", !.err = TRUE,
                                          !.failed = Append(@, reqID)]
                        ELSE [call EXCEPT !.ids = Tail(call.ids),
                                          !.applied = Append(@, reqID)]]
        /\ UNCHANGED <<evidence, reports, audit_logs, nextId, now, resp, trace,
                       users, organizations, accounts, faults>>

\* The loop over requirement_ids, one counter update per turn: its error is
\* printed and the loop goes on.
AdjustNext(p) ==
    LET call == calls.procs[p]
        reqID == Head(call.ids)
        after == IF call.op = "create"
                 THEN incrementRequirementEvidenceCount(requirements, "orgA", reqID)
                 ELSE decrementRequirementEvidenceCount(requirements, "orgA", reqID)
        failed == reqID \in faults.counters \/ reqID \notin DOMAIN requirements["orgA"]
    IN  /\ call.pc = "adjust" /\ call.ids # <<>>
        /\ requirements' = after
        /\ calls' = [calls EXCEPT !.procs[p] =
                        [call EXCEPT
                           !.ids = Tail(call.ids),
                           !.applied = IF failed THEN @ ELSE Append(@, reqID),
                           !.failed = IF failed THEN Append(@, reqID) ELSE @]]
        /\ UNCHANGED <<evidence, reports, audit_logs, nextId, now, resp, trace,
                       users, organizations, accounts, faults>>

\* return nil
ReturnNil(p) ==
    LET call == calls.procs[p]
    IN  /\ call.pc = "adjust" /\ call.ids = <<>>
        /\ calls' = [calls EXCEPT !.procs[p] = [call EXCEPT !.pc = "done", !.err = FALSE]]
        /\ UNCHANGED <<requirements, evidence, reports, audit_logs, nextId, now, resp, trace,
                       users, organizations, accounts, faults>>

NextAdjust ==
    \/ \E p \in Procs : CreateEvidenceSet(p)
    \/ \E p \in Procs, e \in DOMAIN evidence["orgA"] : DeleteEvidenceGet(p, e)
    \/ \E p \in Procs : DeleteEvidenceUpdate(p)
    \/ \E p \in Procs : AdjustNext(p)
    \/ \E p \in Procs : ReturnNil(p)

SpecAdjust == InitAdjust /\ [][NextAdjust]_vars

----------------------------------------------------------------------------
(* The evidence list: orgA holds an uploading and an active item, orgB an  *)
(* active one; uploads are completed, items updated and deleted, and both  *)
(* organizations list their evidence with and without a source filter.     *)

UploadedEvidence(o, id, uid, status) ==
    [NoEvidence EXCEPT
       !.ID = id, !.OrganizationID = o,
       !.Title = IF status = "uploading" THEN "" ELSE "Code of Ethics Ack 2025",
       !.Source = IF status = "uploading" THEN "" ELSE SourceManualUpload,
       !.EvidenceDate = IF status = "uploading" THEN 0 ELSE 482472,
       !.FileURL = <<o, "evidence", id, "ack.pdf">>, !.FileName = "ack.pdf",
       !.FileSize = 1, !.FileType = "application/pdf", !.UploadedBy = uid,
       !.Status = status]

InitList ==
    /\ Registered
    /\ Quiet
    /\ requirements = [o \in Orgs |-> <<>>]
    /\ evidence =
          [o \in Orgs |->
             IF o = "orgA"
             THEN Put(Put(<<>>, 1, UploadedEvidence("orgA", 1, "u1", "uploading")),
                      2, UploadedEvidence("orgA", 2, "u1", "active"))
             ELSE Put(<<>>, 3, UploadedEvidence("orgB", 3, "u2", "active"))]
    /\ reports = [o \in Orgs |-> <<>>]
    /\ audit_logs = [o \in Orgs |-> <<>>]
    /\ nextId = 3
    /\ now = 0
    /\ resp = NoResponse
    /\ trace = [o \in Orgs |-> <<>>]

NextList ==
    \/ \E c \in Callers, e \in IdSpace, b \in CreateEvidenceBodies :
          handleCreateEvidence(c, e, b.title, b.description, b.evidence_date,
                               b.requirement_ids)
    \/ \E c \in Callers, e \in IdSpace, b \in UpdateEvidenceBodies :
          handleUpdateEvidence(c, e, b.title, b.description, b.requirement_ids)
    \/ \E c \in Callers, e \in IdSpace : handleDeleteEvidence(c, e)
    \/ \E c \in Callers, source \in SourcesIn : handleListEvidence(c, source)

SpecList == InitList /\ [][NextList]_vars

----------------------------------------------------------------------------
(* Properties *)

Last(s) == s[Len(s)]

IsPrefix(s, t) == Len(s) <= Len(t) /\ SubSeq(t, 1, Len(s)) = s

\* The request that has just changed organization o's store, if any.
Stepped(o) == Len(trace'[o]) = Len(trace[o]) + 1

\* The active evidence of organization o whose requirement_ids contain r.
ActiveEvidenceFor(o, r) ==
    {e \in DOMAIN evidence[o] :
        evidence[o][e].Status = "active" /\ r \in Range(evidence[o][e].RequirementIDs)}

LifecycleOps == {"create-requirement", "upload-url", "create-evidence", "delete-evidence"}

OnlyLifecycleOps(o) == \A i \in 1..Len(trace[o]) : trace[o][i].op \in LifecycleOps

\* What GET /requirements/{r} shows of requirement r of organization o.
Reads(o, r, status, count) ==
    /\ ~GetRequirement(o, r).err
    /\ CalculateStatus(GetRequirement(o, r).doc, now) = status
    /\ GetRequirement(o, r).doc.EvidenceCount = count

\* The scenario of organization o, step by step: requirement r is activated,
\* an upload is requested and stored as evidence e, the upload is completed
\* naming r, and e is deleted; o has made no other request that took effect.
ScenarioActivated(o, r) ==
    trace[o] = <<Event("create-requirement", r, <<>>)>>

ScenarioUploaded(o, r, e) ==
    trace[o] = <<Event("create-requirement", r, <<>>), Event("upload-url", e, <<>>),
                 Event("create-evidence", e, <<r>>)>>

ScenarioDeleted(o, r, e) ==
    trace[o] = <<Event("create-requirement", r, <<>>), Event("upload-url", e, <<>>),
                 Event("create-evidence", e, <<r>>), Event("delete-evidence", e, <<>>)>>

\* C1: while an organization has only activated requirements, requested and
\* completed uploads and deleted evidence, the stored evidence_count of each
\* of its requirements is the number of its active evidence items whose
\* requirement_ids contain that requirement.
EvidenceCountInvariant ==
    \A o \in Orgs :
        OnlyLifecycleOps(o) =>
            \A r \in DOMAIN requirements[o] :
                requirements[o][r].EvidenceCount = Cardinality(ActiveEvidenceFor(o, r))

\* C2: completing the upload of an evidence record in status uploading with
\* one or more requirement ids of the caller's organization makes the record
\* active and raises the evidence_count of each named requirement by exactly
\* one, and of no other requirement.
CompleteUploadIncrements ==
    [][\A o \in Orgs :
         (/\ Stepped(o)
          /\ Last(trace'[o]).op = "create-evidence"
          /\ evidence[o][Last(trace'[o]).id].Status = "uploading"
          /\ Last(trace'[o]).reqs # <<>>
          /\ Range(Last(trace'[o]).reqs) \subseteq DOMAIN requirements[o])
         => /\ evidence'[o][Last(trace'[o]).id].Status = "active"
            /\ \A r \in DOMAIN requirements[o] :
                 requirements'[o][r].EvidenceCount =
                     requirements[o][r].EvidenceCount
                       + (IF r \in Range(Last(trace'[o]).reqs) THEN 1 ELSE 0)
            /\ \A p \in Orgs \ {o} : requirements'[p] = requirements[p]]_vars

\* C3: deleting an active evidence item makes its status deleted and lowers
\* the evidence_count of each requirement in its requirement_ids by exactly
\* one; every other requirement's evidence_count stays as it was.
DeleteDecrements ==
    [][\A o \in Orgs :
         (/\ Stepped(o)
          /\ Last(trace'[o]).op = "delete-evidence"
          /\ evidence[o][Last(trace'[o]).id].Status = "active")
         => /\ evidence'[o][Last(trace'[o]).id].Status = "deleted"
            /\ \A r \in DOMAIN requirements[o] :
                 requirements'[o][r].EvidenceCount =
                     requirements[o][r].EvidenceCount
                       - (IF r \in Range(evidence[o][Last(trace'[o]).id].RequirementIDs)
                          THEN 1 ELSE 0)
            /\ \A p \in Orgs \ {o} : requirements'[p] = requirements[p]]_vars

\* C4: the evidence id a successful upload request returns is the id under
\* which the uploading record was stored, so that a later request of the same
\* organization with that id finds the record.
UploadReturnsStoredID ==
    [][\A o \in Orgs :
         (Stepped(o) /\ Last(trace'[o]).op = "upload-url")
         => /\ resp'.status = StatusOK
            /\ resp'.id = Last(trace'[o]).id
            /\ resp'.id \in DOMAIN evidence'[o]
            /\ evidence'[o][resp'.id].Status = "uploading"]_vars

\* C5: in the scenario the requirement reads not_started with evidence_count
\* 0 once activated, compliant with evidence_count 1 once the upload naming
\* it is completed, and not_started with evidence_count 0 once that evidence
\* is deleted.
ScenarioReadings ==
    \A o \in Orgs, r \in IdSpace, e \in IdSpace :
        /\ ScenarioActivated(o, r) => Reads(o, r, StatusNotStarted, 0)
        /\ ScenarioUploaded(o, r, e) => Reads(o, r, StatusCompliant, 1)
        /\ ScenarioDeleted(o, r, e) => Reads(o, r, StatusNotStarted, 0)

\* An id that names an evidence item, requirement or report of another
\* organization than o.
Foreign(o, id) ==
    \E p \in Orgs \ {o} :
        id \in DOMAIN evidence[p] \cup DOMAIN requirements[p] \cup DOMAIN reports[p]

\* A well-formed get, update, complete-upload, delete, deactivate or
\* download-url request by caller c that names id.
RequestNaming(c, id) ==
    \/ handleGetEvidence(c, id)
    \/ \E b \in UpdateEvidenceBodies :
          handleUpdateEvidence(c, id, b.title, b.description, b.requirement_ids)
    \/ \E b \in CreateEvidenceBodies :
          /\ ~ParseRFC3339(b.evidence_date).err
          /\ handleCreateEvidence(c, id, b.title, b.description, b.evidence_date,
                                  b.requirement_ids)
    \/ handleDeleteEvidence(c, id)
    \/ handleGenerateDownloadURL(c, id)
    \/ handleGetRequirement(c, id)
    \/ \E n \in NotesIn, d \in DueDatesIn : handleUpdateRequirement(c, id, n, d)
    \/ handleDeactivateRequirement(c, id)
    \/ handleGetReport(c, id)
    \/ handleGetReportDownloadURL(c, id)

AuditAppendOnly ==
    [][\A o \in Orgs : IsPrefix(audit_logs[o], audit_logs'[o])]_vars

\* An organization's log has grown entry by entry to three entries.
AuditAppendOnlyWitness ==
    \E o \in Orgs : Len(audit_logs[o]) = 3 /\ Len(trace[o]) >= 3

StateChangingOps ==
    {"create-requirement", "update-requirement", "deactivate-requirement", "upload-url",
     "create-evidence", "update-evidence", "delete-evidence", "create-report"}

MatchingActions(op) ==
    CASE op = "create-requirement" -> {ActionRequirementActivated}
      [] op = "update-requirement" -> {ActionRequirementUpdated}
      [] op = "deactivate-requirement" -> {ActionRequirementDeactivated}
      [] op = "upload-url" -> {ActionEvidenceCreated}
      [] op = "create-evidence" -> {ActionEvidenceCreated, ActionEvidenceUpdated}
      [] op = "update-evidence" -> {ActionEvidenceUpdated}
      [] op = "delete-evidence" -> {ActionEvidenceDeleted}
      [] op = "create-report" -> {ActionReportGenerated}

\* C8: every successful state-changing operation appends exactly one entry to
\* the audit log of the caller's organization, with the action of the
\* operation and the id of the resource it changed.
EveryChangeAudited ==
    [][\A o \in Orgs :
         (Stepped(o) /\ Last(trace'[o]).op \in StateChangingOps)
         => /\ Len(audit_logs'[o]) = Len(audit_logs[o]) + 1
            /\ IsPrefix(audit_logs[o], audit_logs'[o])
            /\ Last(audit_logs'[o]).OrganizationID = o
            /\ Last(audit_logs'[o]).Action \in MatchingActions(Last(trace'[o]).op)
            /\ Last(audit_logs'[o]).ResourceID = Last(trace'[o]).id]_vars

\* C9: after the scenario the organization's audit log holds exactly three
\* entries, requirement_activated, evidence_created and evidence_deleted in
\* this order, each carrying the organization's id, and the audit list of any
\* other organization shows none of them.
ScenarioAuditTrail ==
    \A o \in Orgs, r \in IdSpace, e \in IdSpace :
        ScenarioDeleted(o, r, e) =>
            /\ Len(audit_logs[o]) = 3
            /\ audit_logs[o][1].Action = ActionRequirementActivated
            /\ audit_logs[o][1].ResourceID = r
            /\ audit_logs[o][2].Action = ActionEvidenceCreated
            /\ audit_logs[o][2].ResourceID = e
            /\ audit_logs[o][3].Action = ActionEvidenceDeleted
            /\ audit_logs[o][3].ResourceID = e
            /\ \A i \in 1..3 : audit_logs[o][i].OrganizationID = o
            /\ \A p \in Orgs \ {o} :
                 Range(audit_logs[o]) \cap Range(ListAuditLogs(p, <<>>, DefaultLimit)) = {}

\* orgA has run the scenario to its end.
ScenarioAuditTrailWitness ==
    \E r \in IdSpace, e \in IdSpace : ScenarioDeleted("orgA", r, e)

\* The five ordered rules of the status derivation.
deriveStatus(count, due, t) ==
    IF count = 0 THEN StatusNotStarted
    ELSE IF ~due.present THEN StatusCompliant
    ELSE IF due.at < t THEN StatusNonCompliant
    ELSE IF due.at <= t + 7 * HoursPerDay THEN StatusAtRisk
    ELSE StatusCompliant

\* C10: for every evidence_count >= 0 the status a requirement reads as is
\* the one the five ordered rules give: not_started for count 0; with count
\* > 0, compliant without a due date, non_compliant with a due date before
\* now (less than 24 hours ago included), at_risk with a due date from now to
\* now + 7 days, compliant with a due date later than that (7 days and some
\* hours included).
StatusDerivation ==
    (resp.status = StatusOK /\ ~GetRequirement(resp.org, resp.named).err)
    => LET r == GetRequirement(resp.org, resp.named).doc
       IN  r.EvidenceCount >= 0
           => resp.rstatus = deriveStatus(r.EvidenceCount, r.NextDueDate, now)

\* C11: a requirement whose next_due_date is present and before now reads
\* non_compliant whatever its evidence count, count 0 included.
PastDueIsNonCompliant ==
    (resp.status = StatusOK /\ ~GetRequirement(resp.org, resp.named).err)
    => LET r == GetRequirement(resp.org, resp.named).doc
       IN  (r.NextDueDate.present /\ r.NextDueDate.at < now)
           => resp.rstatus = StatusNonCompliant

\* The status read of a requirement with this evidence_count and this
\* next_due_date at time t, whatever else is stored on it.
DerivedStatus(count, due, t) ==
    CalculateStatus([NoRequirement EXCEPT !.EvidenceCount = count, !.NextDueDate = due], t)

\* What a read shows of a stored requirement at time t.
Shown(req, t) ==
    [req EXCEPT !.Status = DerivedStatus(req.EvidenceCount, req.NextDueDate, t)]

ActiveRequirements(reqs, o) == {reqs[o][r] : r \in {k \in DOMAIN reqs[o] : reqs[o][k].IsActive}}

WithStatus(reqs, o, t, status) ==
    {req \in ActiveRequirements(reqs, o) : Shown(req, t).Status = status}

\* C12: get requirement, list requirements and dashboard change nothing in
\* the store, and every status they return is the one derived from the stored
\* evidence_count, the stored next_due_date and the clock, not the stored
\* status; the derivation gives the same in the state the read leaves behind,
\* so a repeated read at the same clock reading returns the same.
ReadsDeriveStatus ==
    [][\A c \in Callers :
         LET o == c.OrganizationID
         IN  /\ \A r \in IdSpace :
                  (handleGetRequirement(c, r) /\ resp'.status = StatusOK)
                  => /\ UNCHANGED <<requirements, evidence, reports, audit_logs, nextId, now>>
                     /\ resp'.rstatus = Shown(requirements[o][r], now).Status
                     /\ resp'.rstatus = Shown(requirements'[o][r], now').Status
             /\ handleListRequirements(c)
                  => /\ UNCHANGED <<requirements, evidence, reports, audit_logs, nextId, now>>
                     /\ resp'.list = {Shown(req, now) : req \in ActiveRequirements(requirements, o)}
                     /\ resp'.list = {Shown(req, now') : req \in ActiveRequirements(requirements', o)}
             /\ handleGetDashboard(c)
                  => /\ UNCHANGED <<requirements, evidence, reports, audit_logs, nextId, now>>
                     /\ resp'.metrics.CompliantRequirements =
                            Cardinality(WithStatus(requirements', o, now', StatusCompliant))
                     /\ resp'.metrics.AtRiskRequirements =
                            Cardinality(WithStatus(requirements', o, now', StatusAtRisk))
                     /\ resp'.metrics.NonCompliantRequirements =
                            Cardinality(WithStatus(requirements', o, now', StatusNonCompliant))
                     /\ \A req \in resp'.metrics.UpcomingDeadlines :
                            req = Shown(requirements'[o][req.ID], now')]_vars

\* A list has shown a requirement as compliant whose stored status is
\* not_started, and a dashboard has counted a requirement at risk.
ReadsDeriveStatusWitness ==
    \/ \E req \in resp.list :
          /\ req.Status = StatusCompliant
          /\ req.ID \in DOMAIN requirements[resp.org]
          /\ requirements[resp.org][req.ID].Status = StatusNotStarted
          /\ now > 0
    \/ /\ resp.metrics.AtRiskRequirements > 0
       /\ resp.metrics.UpcomingDeadlines # {}
       /\ now > 0

\* A request of caller c on one of the endpoints behind requireWrite or
\* requireAdmin: evidence upload-url, complete, update, delete; requirement
\* activate, update, deactivate; organization update; user invite,
\* role-change, delete.
WriteRequest(c) ==
    \/ \E b \in UploadBodies :
          handleGenerateUploadURL(c, b.file_name, b.file_type, b.file_size)
    \/ \E e \in IdSpace, b \in CreateEvidenceBodies :
          handleCreateEvidence(c, e, b.title, b.description, b.evidence_date,
                               b.requirement_ids)
    \/ \E e \in IdSpace, b \in UpdateEvidenceBodies :
          handleUpdateEvidence(c, e, b.title, b.description, b.requirement_ids)
    \/ \E e \in IdSpace : handleDeleteEvidence(c, e)
    \/ \E t \in TemplateIDs, n \in NotesIn : handleCreateRequirement(c, t, n)
    \/ \E r \in IdSpace, n \in NotesIn, d \in DueDatesIn : handleUpdateRequirement(c, r, n, d)
    \/ \E r \in IdSpace : handleDeactivateRequirement(c, r)
    \/ \E b \in OrganizationBodies : handleUpdateOrganization(c, b)
    \/ \E b \in InviteBodies : handleInviteUser(c, b.email, b.role)
    \/ \E u \in UIDs, role \in RolesIn : handleUpdateUserRole(c, u, role)
    \/ \E u \in UIDs : handleDeleteUser(c, u)

\* C13: a request of a caller with the viewer role on any write endpoint is
\* answered 403 and creates or changes no requirement, evidence item, report,
\* counter, audit entry, user, organization or account.
ViewerCannotWrite ==
    [][\A c \in Viewers :
         (resp'.uid = c.UID /\ WriteRequest(c))
         => /\ resp'.status = StatusForbidden
            /\ resp'.org = c.OrganizationID
            /\ UNCHANGED <<requirements, evidence, reports, audit_logs, nextId,
                           users, organizations, accounts>>]_vars

\* The viewer of orgA has asked to delete a user of its own organization and
\* was answered 403, the organization holding an active evidence item.
ViewerCannotWriteWitness ==
    /\ resp.org = "orgA"
    /\ resp.user = "u1"
    /\ resp.status = StatusForbidden
    /\ users["u3"].Role = RoleViewer
    /\ \E e \in DOMAIN evidence["orgA"] : evidence["orgA"][e].Status = "active"

\* The counter updates of calls of kind op that went through on requirement r.
RECURSIVE AppliedBy(_, _, _)
AppliedBy(op, r, ps) ==
    IF ps = {} THEN 0
    ELSE LET p == CHOOSE q \in ps : TRUE
             call == calls.procs[p]
             mine == IF call.op = op
                     THEN Cardinality({i \in 1..Len(call.applied) : call.applied[i] = r})
                     ELSE 0
         IN  mine + AppliedBy(op, r, ps \ {p})

AllReturned == \A p \in Procs : calls.procs[p].pc = "done"

NoneFailed == \A p \in Procs : calls.procs[p].failed = <<>> /\ ~calls.procs[p].err

\* C14: when the calls running at the same time have all returned and none of
\* their counter updates failed, each requirement's evidence_count is its value
\* at the start plus the increments made on it minus the decrements made on
\* it, whatever the order in which the requests reached the store.
NoLostUpdate ==
    (AllReturned /\ NoneFailed)
    => \A r \in DOMAIN calls.base :
          requirements["orgA"][r].EvidenceCount =
              calls.base[r] + AppliedBy("create", r, Procs) - AppliedBy("delete", r, Procs)

\* Two creations and a deletion have run side by side to their end, every
\* counter update going through.
NoLostUpdateWitness ==
    /\ AllReturned
    /\ NoneFailed
    /\ AppliedBy("create", FirstRequirement, Procs) = 2
    /\ AppliedBy("delete", FirstRequirement, Procs) = 1

\* uploading, then active, then deleted.
StatusRank(status) ==
    CASE status = "uploading" -> 1
      [] status = "active" -> 2
      [] status = "deleted" -> 3

\* C15: the status of an evidence record only moves forward along uploading,
\* active, deleted: no request takes a deleted record back to active or
\* uploading or an active record back to uploading, and completing an upload
\* makes a record active only from uploading.
EvidenceStatusForward ==
    [][\A o \in Orgs : \A e \in DOMAIN evidence[o] :
         /\ StatusRank(evidence'[o][e].Status) >= StatusRank(evidence[o][e].Status)
         /\ (Stepped(o) /\ Last(trace'[o]).op = "create-evidence" /\ Last(trace'[o]).id = e)
            => evidence[o][e].Status = "uploading"]_vars

\* C16: an evidence list returns exactly the evidence items of the caller's
\* organization that are in status active and have the source asked for, if
\* one is asked for: no item in status uploading or deleted and no item of
\* another organization is ever in a list.
ListShowsActiveOnly ==
    [][\A c \in Callers, source \in SourcesIn :
         (resp'.uid = c.UID /\ handleListEvidence(c, source))
         => /\ resp'.status = StatusOK
            /\ \A o \in Orgs : \A e \in DOMAIN evidence[o] :
                 evidence[o][e] \in resp'.list
                 <=> /\ o = c.OrganizationID
                     /\ evidence[o][e].Status = "active"
                     /\ source # "" => evidence[o][e].Source = source
            /\ \A doc \in resp'.list :
                 /\ doc.OrganizationID = c.OrganizationID
                 /\ doc.Status = "active"
                 /\ doc.ID \in DOMAIN evidence[doc.OrganizationID]
                 /\ evidence[doc.OrganizationID][doc.ID] = doc]_vars

\* orgA has listed its evidence and got one item while it holds another in
\* status deleted and orgB holds an active one.
ListShowsActiveOnlyWitness ==
    /\ resp.org = "orgA"
    /\ Cardinality(resp.list) = 1
    /\ \E e \in DOMAIN evidence["orgA"] : evidence["orgA"][e].Status = "deleted"
    /\ \E e \in DOMAIN evidence["orgB"] : evidence["orgB"][e].Status = "active"
    /\ \A doc \in resp.list : doc.Status = "active" /\ doc.OrganizationID = "orgA"

\* The entries of ids, in order, for which the counter update goes through.
Adjustable(ids) == SelectSeq(ids, LAMBDA r : r \notin faults.counters)

\* The entries of ids, in order, for which the counter update fails.
Failing(ids) == SelectSeq(ids, LAMBDA r : r \in faults.counters)

\* C17: a counter update that fails does not undo the evidence write and does
\* not fail the store call: CreateEvidence and DeleteEvidence return nil, the
\* document written stays written (the deleted one stays deleted), and the
\* counters of the other requirements the document names are still adjusted.
\* When all calls have returned, the count of a requirement whose updates
\* fail is the one it started with, and the count of the others is exact.
CounterFailureTolerated ==
    /\ \A p \in Procs :
         LET call == calls.procs[p]
         IN  call.pc = "done"
             => /\ ~call.err
                /\ call.evidenceID \in DOMAIN evidence["orgA"]
                /\ call.op = "delete" => evidence["orgA"][call.evidenceID].Status = "deleted"
                /\ call.applied = Adjustable(BothRequirements)
                /\ call.failed = Failing(BothRequirements)
    /\ AllReturned
       => \A r \in DOMAIN calls.base :
             requirements["orgA"][r].EvidenceCount =
                 IF r \in faults.counters
                 THEN calls.base[r]
                 ELSE calls.base[r] + AppliedBy("create", r, Procs)
                                    - AppliedBy("delete", r, Procs)

\* The updates of the first requirement's counter fail: a creation and a
\* deletion have returned nil all the same, the new document is stored, the
\* old one is deleted, and the second requirement's counter was adjusted by
\* both.
CounterFailureToleratedWitness ==
    /\ faults.counters = {FirstRequirement}
    /\ AllReturned
    /\ \E p, q \in Procs :
          /\ calls.procs[p].op = "create" /\ calls.procs[q].op = "delete"
          /\ calls.procs[p].failed = <<FirstRequirement>>
          /\ calls.procs[q].failed = <<FirstRequirement>>
          /\ calls.procs[p].applied = <<SecondRequirement>>
          /\ calls.procs[q].applied = <<SecondRequirement>>
          /\ ~calls.procs[p].err /\ ~calls.procs[q].err
          /\ evidence["orgA"][calls.procs[p].evidenceID].Status = "active"
          /\ evidence["orgA"][calls.procs[q].evidenceID].Status = "deleted"

\* What the request recorded as event e wrote to the store of organization o,
\* read in the store as it is after the request.
PrimaryWrite(o, e, reqs, reqs2, evid2, reps2, uid) ==
    CASE e.op = "create-requirement" ->
            e.id \notin DOMAIN reqs[o] /\ e.id \in DOMAIN reqs2[o]
      [] e.op = "update-requirement" -> reqs2[o][e.id].UpdatedBy = uid
      [] e.op = "deactivate-requirement" -> ~reqs2[o][e.id].IsActive
      [] e.op = "upload-url" -> evid2[o][e.id].Status = "uploading"
      [] e.op = "create-evidence" ->
            evid2[o][e.id].Status = "active" /\ evid2[o][e.id].RequirementIDs = e.reqs
      [] e.op = "update-evidence" -> evid2[o][e.id].RequirementIDs = e.reqs
      [] e.op = "delete-evidence" -> evid2[o][e.id].Status = "deleted"
      [] e.op = "create-report" -> e.id \in DOMAIN reps2[o]
      [] OTHER -> TRUE

EvidenceUpdateReplaces ==
    [][\A o \in Orgs :
         (Stepped(o) /\ Last(trace'[o]).op = "update-evidence")
         => LET e == Last(trace'[o]).id
            IN  /\ resp'.status = StatusOK
                /\ e \in DOMAIN evidence[o]
                /\ \E b \in UpdateEvidenceBodies :
                      /\ b.requirement_ids = Last(trace'[o]).reqs
                      /\ evidence' =
                            [evidence EXCEPT ![o][e] =
                               [@ EXCEPT !.Title = b.title,
                                         !.Description = b.description,
                                         !.RequirementIDs = b.requirement_ids]]
                /\ evidence'[o][e].Status = evidence[o][e].Status
                /\ \A q \in Orgs : \A r \in DOMAIN requirements[q] :
                      /\ r \in DOMAIN requirements'[q]
                      /\ requirements'[q][r].EvidenceCount = requirements[q][r].EvidenceCount
                /\ requirements' = requirements]_vars

\* An active item that was completed with one list of requirement ids has
\* been updated to another, naming a stored requirement in one of the two.
EvidenceUpdateReplacesWitness ==
    \E o \in Orgs :
       /\ Len(trace[o]) >= 2
       /\ Last(trace[o]).op = "update-evidence"
       /\ LET e == Last(trace[o]).id
          IN  /\ evidence[o][e].Status = "active"
              /\ evidence[o][e].RequirementIDs = Last(trace[o]).reqs
              /\ evidence[o][e].Description = "countersigned"
              /\ \E i \in 1..(Len(trace[o]) - 1) :
                    /\ trace[o][i].op = "create-evidence"
                    /\ trace[o][i].id = e
                    /\ trace[o][i].reqs # Last(trace[o]).reqs
                    /\ \E r \in DOMAIN requirements[o] :
                          r \in Range(trace[o][i].reqs) \cup Range(Last(trace[o]).reqs)

\* C20: in every reachable state the requirement_ids of every evidence item
\* in status active are ids of requirements stored under the same
\* organization.
ActiveEvidenceNamesOwnRequirements ==
    \A o \in Orgs : \A e \in DOMAIN evidence[o] :
        evidence[o][e].Status = "active"
        => Range(evidence[o][e].RequirementIDs) \subseteq DOMAIN requirements[o]

\* C21: activating a requirement from an existing template stores one new
\* requirement under the caller's organization with the template's title,
\* description, category, authority, evidence types and frequency, status
\* not_started, evidence_count 0 and is_active true, and leaves the other
\* requirements alone; activation with an unknown template id is answered 404
\* and stores no requirement and no audit entry.
ActivationCopiesTemplate ==
    [][/\ \A o \in Orgs :
            (Stepped(o) /\ Last(trace'[o]).op = "create-requirement")
            => LET id == Last(trace'[o]).id
               IN  /\ resp'.status = StatusCreated /\ resp'.org = o /\ resp'.id = id
                   /\ DOMAIN requirements'[o] = DOMAIN requirements[o] \cup {id}
                   /\ id \notin DOMAIN requirements[o]
                   /\ \A q \in Orgs : \A r \in DOMAIN requirements[q] :
                         requirements'[q][r] = requirements[q][r]
                   /\ requirements'[o][id].OrganizationID = o
                   /\ requirements'[o][id].ID = id
                   /\ \E t \in DOMAIN Templates :
                         /\ requirements'[o][id].TemplateID = t
                         /\ requirements'[o][id].Title = Templates[t].Title
                         /\ requirements'[o][id].Description = Templates[t].Description
                         /\ requirements'[o][id].Category = Templates[t].Category
                         /\ requirements'[o][id].Authority = Templates[t].Authority
                         /\ requirements'[o][id].EvidenceTypes = Templates[t].EvidenceTypes
                         /\ requirements'[o][id].Frequency = Templates[t].Frequency
                   /\ requirements'[o][id].Status = StatusNotStarted
                   /\ requirements'[o][id].EvidenceCount = 0
                   /\ requirements'[o][id].IsActive
      /\ \A c \in Callers, t \in TemplateIDs \ DOMAIN Templates, n \in NotesIn :
            (resp'.uid = c.UID /\ handleCreateRequirement(c, t, n))
            => /\ resp'.status = StatusNotFound
               /\ requirements' = requirements
               /\ audit_logs' = audit_logs]_vars

\* A requirement activated from template sec-ria-001 is stored with the
\* template's authority and evidence types, and the request was answered 201.
ActivationCopiesTemplateWitness ==
    \E o \in Orgs :
       /\ trace[o] # <<>>
       /\ Last(trace[o]).op = "create-requirement"
       /\ resp.status = StatusCreated /\ resp.org = o
       /\ requirements[o][resp.id].TemplateID = "sec-ria-001"
       /\ requirements[o][resp.id].Authority = "SEC Rule 204A-1"
       /\ Len(requirements[o][resp.id].EvidenceTypes) = 2
       /\ requirements[o][resp.id].IsActive

\* C22: a requirement update sets the notes and the next_due_date of the
\* requirement to the values of the request and leaves its template-derived
\* fields, its evidence_count and its is_active flag as stored.
UpdateSetsNotesAndDueDate ==
    [][\A c \in Callers, r \in IdSpace, n \in NotesIn, d \in DueDatesIn :
         (/\ resp'.uid = c.UID
          /\ handleUpdateRequirement(c, r, n, d)
          /\ resp'.status = StatusOK)
         => LET old == requirements[c.OrganizationID][r]
                new == requirements'[c.OrganizationID][r]
            IN  /\ new.Notes = n
                /\ new.NextDueDate = d
                /\ new.TemplateID = old.TemplateID
                /\ new.Title = old.Title
                /\ new.Description = old.Description
                /\ new.Category = old.Category
                /\ new.Authority = old.Authority
                /\ new.EvidenceTypes = old.EvidenceTypes
                /\ new.Frequency = old.Frequency
                /\ new.EvidenceCount = old.EvidenceCount
                /\ new.IsActive = old.IsActive]_vars

\* The requirements of organization o that a request has deactivated.
Deactivated(o) ==
    {trace[o][i].id : i \in {k \in 1..Len(trace[o]) :
                                trace[o][k].op = "deactivate-requirement"}}

\* C23: deactivating a requirement sets is_active to false on that
\* requirement (and notes who did it) and changes no other requirement, no
\* evidence record and no evidence_count; from then on no list of
\* requirements shows the requirement and the dashboard does not count it.
DeactivationHides ==
    [][/\ \A o \in Orgs :
            (Stepped(o) /\ Last(trace'[o]).op = "deactivate-requirement")
            => LET id == Last(trace'[o]).id
               IN  /\ resp'.status = StatusOK
                   /\ id \in DOMAIN requirements[o]
                   /\ requirements' =
                         [requirements EXCEPT ![o][id] =
                            [@ EXCEPT !.IsActive = FALSE, !.UpdatedBy = resp'.uid]]
                   /\ requirements'[o][id].EvidenceCount = requirements[o][id].EvidenceCount
                   /\ evidence' = evidence
      /\ \A c \in Callers :
            LET o == c.OrganizationID
            IN  /\ (resp'.uid = c.UID /\ handleListRequirements(c))
                   => /\ \A doc \in resp'.list : doc.ID \notin Deactivated(o)
                      /\ {doc.ID : doc \in resp'.list} = DOMAIN requirements[o] \ Deactivated(o)
                /\ (resp'.uid = c.UID /\ handleGetDashboard(c))
                   => /\ resp'.metrics.TotalRequirements =
                            Cardinality(DOMAIN requirements[o] \ Deactivated(o))
                      /\ \A req \in resp'.metrics.UpcomingDeadlines :
                            req.ID \notin Deactivated(o)]_vars

\* orgA has deactivated one of its two requirements and then listed them: the
\* list shows the other one only, the deactivated requirement keeps its
\* evidence_count and the evidence item naming it is still active.
DeactivationHidesWitness ==
    /\ Deactivated("orgA") = {1}
    /\ resp.org = "orgA" /\ resp.status = StatusOK
    /\ {doc.ID : doc \in resp.list} = {2}
    /\ ~requirements["orgA"][1].IsActive
    /\ requirements["orgA"][1].EvidenceCount = 1
    /\ evidence["orgA"][4].Status = "active"
    /\ evidence["orgA"][4].RequirementIDs = <<1>>

\* C24: no request removes a record: every organization, requirement and
\* evidence record stored before a step is stored after it, under the same
\* organization; in particular deleting an evidence item removes no
\* requirement and deactivating a requirement removes no evidence item.
NothingRemoved ==
    [][/\ DOMAIN organizations \subseteq DOMAIN organizations'
       /\ \A o \in Orgs :
            /\ DOMAIN requirements[o] \subseteq DOMAIN requirements'[o]
            /\ DOMAIN evidence[o] \subseteq DOMAIN evidence'[o]
            /\ \A r \in DOMAIN requirements[o] : requirements'[o][r].OrganizationID = o
            /\ \A e \in DOMAIN evidence[o] : evidence'[o][e].OrganizationID = o]_vars

\* The evidence item of orgA has been deleted: its record is stored with
\* status deleted, and the requirement it names and the organization are
\* stored as well.
NothingRemovedWitness ==
    /\ 3 \in DOMAIN evidence["orgA"]
    /\ evidence["orgA"][3].Status = "deleted"
    /\ Last(trace["orgA"]).op = "delete-evidence"
    /\ 1 \in DOMAIN requirements["orgA"]
    /\ "orgA" \in DOMAIN organizations

\* C25: a request on a route of the organization group whose token lacks the
\* organization id or lacks the role is answered 403, on the read routes as
\* on the write routes, and changes nothing in the store.
IncompleteClaimsRejected ==
    [][resp'.uid \in {c.UID : c \in Partial}
       => /\ resp'.status = StatusForbidden
          /\ UNCHANGED <<requirements, evidence, reports, audit_logs, users,
                         organizations, accounts>>]_vars

\* C26: a request that addresses a user by id, role change or deletion, is
\* answered the same when the id is a user of another organization as when
\* it is no user at all, namely with 404 as for an unknown id, and neither
\* request changes anything.
ForeignLooksMissing ==
    [][\A c \in Callers :
         (/\ resp'.uid = c.UID
          /\ requireAdmin(c)
          /\ resp'.user \notin {"", c.UID}
          /\ \/ resp'.user \notin DOMAIN users
             \/ users[resp'.user].OrganizationID # c.OrganizationID)
         => /\ resp'.status = StatusNotFound
            /\ UNCHANGED <<users, accounts, organizations, requirements, evidence,
                           reports, audit_logs>>]_vars

\* The users of organization o in status active.
ActiveUsers(o) ==
    {u \in DOMAIN users : users[u].OrganizationID = o /\ users[u].Status = "active"}

NoSelfDeletion ==
    [][\A c \in Callers \cup Viewers :
         (resp'.uid = c.UID /\ handleDeleteUser(c, c.UID))
         => /\ resp'.status \in {StatusBadRequest, StatusForbidden}
            /\ requireAdmin(c) => resp'.status = StatusBadRequest
            /\ users' = users
            /\ accounts' = accounts]_vars

\* The admin of orgA has asked to delete its own user and was answered 400;
\* its user record is active and its account exists.
NoSelfDeletionWitness ==
    /\ resp.uid = "u1" /\ resp.user = "u1"
    /\ resp.status = StatusBadRequest
    /\ users["u1"].Status = "active"
    /\ "u1" \in DOMAIN accounts

Granted(role, action) ==
    \/ role = RoleAdmin
    \/ /\ role = RoleComplianceOfficer
       /\ action \notin {"manage_users", "manage_billing", "manage_integrations"}
    \/ /\ role = RoleViewer
       /\ action \in {"view_dashboard", "view_requirements", "view_evidence",
                      "view_audit_log", "generate_reports"}

\* C30: the permission check grants an admin every action, a compliance
\* officer every action except manage_users, manage_billing and
\* manage_integrations, a viewer exactly view_dashboard, view_requirements,
\* view_evidence, view_audit_log and generate_reports, and any other role
\* nothing; the check changes nothing in the store and writes no audit entry.
PermissionTable ==
    [][\A uid \in DOMAIN users, action \in ActionsIn :
         AskPermission(uid, action)
         => /\ resp'.status = IF Granted(users[uid].Role, action)
                              THEN StatusOK ELSE StatusForbidden
            /\ users[uid].Role \notin {RoleAdmin, RoleComplianceOfficer, RoleViewer}
               => resp'.status = StatusForbidden
            /\ UNCHANGED <<users, organizations, accounts, requirements, evidence,
                           reports, audit_logs>>]_vars

\* A compliance officer was refused manage_billing while the other stored
\* user is a viewer.
PermissionTableWitness ==
    /\ resp.user = "u1" /\ resp.rstatus = "manage_billing"
    /\ resp.status = StatusForbidden
    /\ users["u1"].Role = RoleComplianceOfficer
    /\ users["u2"].Role = RoleViewer

\* C31: in every reachable state the role of every stored user is one of
\* admin, compliance_officer and viewer: neither registration nor a role
\* change stores another value.
StoredRolesValid ==
    \A u \in DOMAIN users :
       users[u].Role \in {RoleAdmin, RoleComplianceOfficer, RoleViewer}

----------------------------------------------------------------------------
(* The audit log routes: requirements are activated and an organization   *)
(* is updated while the clock advances, and the log is listed and          *)
(* exported.                                                               *)

\* The limit parameter of a query, by its characters: absent, positive,
\* negative, no number.
LimitsIn == {<<>>, <<"1">>, <<"2">>, <<"-", "1">>, <<"x">>}

\* The queries: every choice of filters without a limit, and every limit
\* with the action filter or without a filter.
AuditQueries ==
    {q \in [user_id : {"", "u1"}, action : {"", ActionRequirementActivated},
            resource_type : {"", "organization"}, limit : LimitsIn] :
        q.limit = <<>> \/ (q.user_id = "" /\ q.resource_type = "")}

\* An export takes no limit.
ExportQueries == {q \in AuditQueries : q.limit = <<>>}

NextAudit ==
    \/ Tick
    \/ \E c \in Callers, t \in TemplateIDs, n \in NotesIn : handleCreateRequirement(c, t, n)
    \/ \E c \in Callers, b \in OrganizationBodies : handleUpdateOrganization(c, b)
    \/ \E c \in Callers \cup Viewers, q \in AuditQueries : handleListAuditLogs(c, q)
    \/ \E c \in Callers \cup Viewers, q \in ExportQueries : handleExportAuditLogs(c, q)

SpecAudit == Init /\ [][NextAudit]_vars

\* The entries of orgID that match the query's filters, newest first.
Matching(orgID, q) ==
    LET Hit(log) == /\ q.user_id # "" => log.UserID = q.user_id
                    /\ q.action # "" => log.Action = q.action
                    /\ q.resource_type # "" => log.ResourceType = q.resource_type
    IN  SelectSeq(Reverse(audit_logs[orgID]), Hit)

\* C32: an export of the audit log is refused when the entries of the
\* caller's organization that match the filters number 10,000 or more, and
\* otherwise it has one row for each matching entry and no other row.
ExportRefusesAtLimit ==
    [][\A c \in Callers \cup Viewers, q \in ExportQueries :
         (resp'.uid = c.UID /\ audit_logs' = audit_logs /\ handleExportAuditLogs(c, q))
         => LET matching == Matching(c.OrganizationID, q)
            IN  IF Len(matching) >= ExportLimit
                THEN resp'.status = StatusBadRequest /\ resp'.rows = <<>>
                ELSE /\ resp'.status = StatusOK
                     /\ Len(resp'.rows) = Len(matching)
                     /\ \A i \in 1..Len(matching) :
                           resp'.rows[i] = ExportRow(matching[i])]_vars

\* The limit a query asks for: its number when that is positive, else 100.
AskedLimit(q) ==
    CASE q.limit = <<"1">> -> 1
      [] q.limit = <<"2">> -> 2
      [] OTHER -> DefaultLimit

\* C33: a listing of the audit log holds only entries of the caller's
\* organization that match the filters, newest first by timestamp; when more
\* entries match than the limit allows it holds the limit newest of them, and
\* otherwise all of them.  Every entry written carries the server's clock at
\* the time of the write.
AuditListNewestFirst ==
    [][/\ \A c \in Callers \cup Viewers, q \in AuditQueries :
            (resp'.uid = c.UID /\ audit_logs' = audit_logs /\ handleListAuditLogs(c, q))
            => LET matching == Matching(c.OrganizationID, q)
                   rows == resp'.rows
               IN  /\ resp'.status = StatusOK
                   /\ Len(rows) = IF Len(matching) > AskedLimit(q)
                                  THEN AskedLimit(q) ELSE Len(matching)
                   /\ \A i \in 1..Len(rows) :
                         /\ rows[i].OrganizationID = c.OrganizationID
                         /\ rows[i] \in Range(audit_logs[c.OrganizationID])
                         /\ rows[i] \in Range(matching)
                         /\ \A j \in 1..Len(rows) :
                               i < j => rows[i].Timestamp >= rows[j].Timestamp
                         /\ \A e \in Range(matching) :
                               e.Timestamp > rows[i].Timestamp => e \in Range(rows)
       /\ \A o \in Orgs :
            /\ Len(audit_logs'[o]) >= Len(audit_logs[o])
            /\ \A i \in 1..Len(audit_logs'[o]) :
                  IF i <= Len(audit_logs[o])
                  THEN audit_logs'[o][i] = audit_logs[o][i]
                  ELSE audit_logs'[o][i].Timestamp = now']_vars

\* orgA wrote three entries at three different hours and a listing with
\* limit 2 holds the two newest, the newer one first.
AuditListNewestFirstWitness ==
    /\ Len(audit_logs["orgA"]) = 3
    /\ \A i \in 1..3 : audit_logs["orgA"][i].Timestamp = i - 1
    /\ resp.org = "orgA"
    /\ Len(resp.rows) = 2
    /\ resp.rows[1] = audit_logs["orgA"][3]
    /\ resp.rows[2] = audit_logs["orgA"][2]

\* C34: no stored evidence_count is negative in a state reached by
\* activations, upload requests, completions, evidence updates and evidence
\* deletions.
CountNeverNegative ==
    \A o \in Orgs :
       (\A i \in 1..Len(trace[o]) :
           trace[o][i].op \in LifecycleOps \cup {"update-evidence"})
       => \A r \in DOMAIN requirements[o] : requirements[o][r].EvidenceCount >= 0

----------------------------------------------------------------------------
(* Repeated deletion: orgA holds a requirement with one active evidence    *)
(* item counted on it, orgB an active item; items are read, updated and    *)
(* deleted, more than once.                                                *)

InitDelete ==
    /\ Registered
    /\ Quiet
    /\ requirements =
          [o \in Orgs |->
             IF o = "orgA"
             THEN Put(<<>>, 1, [NoRequirement EXCEPT
                                  !.ID = 1, !.OrganizationID = "orgA",
                                  !.TemplateID = "sec-ria-001", !.Title = "Code of Ethics",
                                  !.Description = Templates["sec-ria-001"].Description,
                                  !.Category = Templates["sec-ria-001"].Category,
                                  !.Authority = Templates["sec-ria-001"].Authority,
                                  !.EvidenceTypes = Templates["sec-ria-001"].EvidenceTypes,
                                  !.Frequency = "annual", !.Status = StatusNotStarted,
                                  !.EvidenceCount = 1,
                                  !.Notes = "n1", !.ActivatedBy = "u1", !.IsActive = TRUE])
             ELSE <<>>]
    /\ evidence =
          [o \in Orgs |->
             IF o = "orgA"
             THEN Put(<<>>, 2, [UploadedEvidence("orgA", 2, "u1", "active") EXCEPT
                                  !.RequirementIDs = <<1>>])
             ELSE Put(<<>>, 3, UploadedEvidence("orgB", 3, "u2", "active"))]
    /\ reports = [o \in Orgs |-> <<>>]
    /\ audit_logs = [o \in Orgs |-> <<>>]
    /\ nextId = 3
    /\ now = 0
    /\ resp = NoResponse
    /\ trace = [o \in Orgs |-> <<>>]

NextDelete ==
    \/ \E c \in Callers, e \in IdSpace : handleGetEvidence(c, e)
    \/ \E c \in Callers, e \in IdSpace, b \in UpdateEvidenceBodies :
          handleUpdateEvidence(c, e, b.title, b.description, b.requirement_ids)
    \/ \E c \in Callers, e \in IdSpace : handleDeleteEvidence(c, e)
    \/ \E c \in Callers, r \in IdSpace : handleGetRequirement(c, r)

SpecDelete == InitDelete /\ [][NextDelete]_vars

\* C35: the deletion of an evidence item whose status is already deleted
\* leaves the evidence_count of every requirement as it was.
DeleteIsIdempotent ==
    [][\A o \in Orgs :
         (/\ Stepped(o)
          /\ Last(trace'[o]).op = "delete-evidence"
          /\ evidence[o][Last(trace'[o]).id].Status = "deleted")
         => \A p \in Orgs :
               \A r \in DOMAIN requirements[p] :
                  requirements'[p][r].EvidenceCount = requirements[p][r].EvidenceCount]_vars

----------------------------------------------------------------------------
(* Writers of one requirement document running at the same time: requests  *)
(* that update or deactivate orgA's requirement (GetRequirement, then        *)
(* UpdateRequirement with the document read, then the audit entry and the  *)
(* response) and counter updates on it (one Firestore update with          *)
(* Increment), interleaved request by request.                             *)

Request(op, pc) == [op |-> op, pc |-> pc, doc |-> NoRequirement]

InitWriters ==
    /\ Registered
    /\ faults = NoFaults
    /\ \E n \in 0..MaxCount :
          /\ requirements =
                [o \in Orgs |->
                   IF o = "orgA"
                   THEN Put(<<>>, FirstRequirement,
                            StoredRequirement("orgA", FirstRequirement, n, NoDate, TRUE))
                   ELSE <<>>]
          /\ \E ops \in [Procs -> {"update", "deactivate", "increment", "decrement"}] :
                calls = [base |-> Put(<<>>, FirstRequirement, n),
                         procs |-> [p \in Procs |->
                                      Request(ops[p],
                                              IF ops[p] \in {"update", "deactivate"}
                                              THEN "get" ELSE "adjust")]]
    /\ evidence = [o \in Orgs |-> <<>>]
    /\ reports = [o \in Orgs |-> <<>>]
    /\ audit_logs = [o \in Orgs |-> <<>>]
    /\ nextId = 0
    /\ now = 0
    /\ resp = NoResponse
    /\ trace = [o \in Orgs |-> <<>>]

\* handleUpdateRequirement and handleDeactivateRequirement, the read:
\* requirement, err := s.store.GetRequirement(...)
RequirementGet(p, c) ==
    LET call == calls.procs[p]
        got == GetRequirement(c.OrganizationID, FirstRequirement)
    IN  /\ call.op \in {"update", "deactivate"} /\ call.pc = "get"
        /\ ~got.err
        /\ calls' = [calls EXCEPT !.procs[p] = [call EXCEPT !.pc = "set", !.doc = got.doc]]
        /\ UNCHANGED <<requirements, evidence, reports, audit_logs, nextId, now, resp, trace,
                       users, organizations, accounts, faults>>

\* The fields are set on the document read and UpdateRequirement writes the
\* whole document.
RequirementSet(p, c, notes) ==
    LET call == calls.procs[p]
        requirement == IF call.op = "update"
                       THEN [call.doc EXCEPT !.Notes = notes, !.UpdatedBy = c.UID]
                       ELSE [call.doc EXCEPT !.IsActive = FALSE, !.UpdatedBy = c.UID]
    IN  /\ call.op \in {"update", "deactivate"} /\ call.pc = "set"
        /\ UpdateRequirement(requirement)
        /\ calls' = [calls EXCEPT !.procs[p] = [call EXCEPT !.pc = "audit", !.doc = requirement]]
        /\ UNCHANGED <<evidence, reports, audit_logs, nextId, now, resp, trace,
                       users, organizations, accounts, faults>>

\* The audit entry and the response.
RequirementAudit(p, c) ==
    LET call == calls.procs[p]
        requirement == call.doc
    IN  /\ call.op \in {"update", "deactivate"} /\ call.pc = "audit"
        /\ CreateAuditLog(
              IF call.op = "update"
              THEN AuditLog(c, ActionRequirementUpdated, "requirement", requirement.ID,
                            <<"Updated requirement: ", requirement.Title>>, NoChanges, <<>>)
              ELSE AuditLog(c, ActionRequirementDeactivated, "requirement", requirement.ID,
                            <<"Deactivated requirement: ", requirement.Title>>,
                            NoChanges, <<>>))
        /\ resp' = IF call.op = "update"
                   THEN [Response(c, requirement.ID, StatusOK, requirement.ID)
                           EXCEPT !.rstatus = requirement.Status,
                                  !.count = requirement.EvidenceCount]
                   ELSE Response(c, requirement.ID, StatusOK, 0)
        /\ Record(c, Event(IF call.op = "update" THEN "update-requirement"
                           ELSE "deactivate-requirement", requirement.ID, <<>>))
        /\ calls' = [calls EXCEPT !.procs[p] = [call EXCEPT !.pc = "done"]]
        /\ UNCHANGED <<requirements, evidence, reports, nextId, now,
                       users, organizations, accounts, faults>>

\* incrementRequirementEvidenceCount or decrementRequirementEvidenceCount on
\* the requirement: one update of the evidence_count field.
CounterUpdate(p) ==
    LET call == calls.procs[p]
    IN  /\ call.op \in {"increment", "decrement"} /\ call.pc = "adjust"
        /\ requirements' =
              IF call.op = "increment"
              THEN incrementRequirementEvidenceCount(requirements, "orgA", FirstRequirement)
              ELSE decrementRequirementEvidenceCount(requirements, "orgA", FirstRequirement)
        /\ calls' = [calls EXCEPT !.procs[p] = [call EXCEPT !.pc = "done"]]
        /\ UNCHANGED <<evidence, reports, audit_logs, nextId, now, resp, trace,
                       users, organizations, accounts, faults>>

NextWriters ==
    \/ \E p \in Procs, c \in {c \in Callers : c.OrganizationID = "orgA"} : RequirementGet(p, c)
    \/ \E p \in Procs, c \in {c \in Callers : c.OrganizationID = "orgA"}, n \in {"n2"} :
          RequirementSet(p, c, n)
    \/ \E p \in Procs, c \in {c \in Callers : c.OrganizationID = "orgA"} :
          RequirementAudit(p, c)
    \/ \E p \in Procs : CounterUpdate(p)

SpecWriters == InitWriters /\ [][NextWriters]_vars

\* The counter updates of kind op that have been made.
Made(op) == Cardinality({p \in Procs : calls.procs[p].op = op /\ calls.procs[p].pc = "done"})

\* C36: an update or deactivation of a requirement running at the same time
\* as counter updates on it loses none of them: when every request has
\* returned, the evidence_count is the count at the start plus the
\* increments minus the decrements.
NoLostAdjustment ==
    AllReturned
    => requirements["orgA"][FirstRequirement].EvidenceCount =
          calls.base[FirstRequirement] + Made("increment") - Made("decrement")

\* C37: every organization has at least one user in status active whose role
\* is admin, whatever role changes and user deletions its admins have made.
EveryTenantHasAdmin ==
    \A o \in DOMAIN organizations :
       \E u \in DOMAIN users :
          /\ users[u].OrganizationID = o
          /\ users[u].Status = "active"
          /\ users[u].Role = RoleAdmin

----------------------------------------------------------------------------
(* Billing: people register, and the admins choose, change and cancel the  *)
(* subscription and update the organization's profile.                     *)

\* The tier of a subscription body: the three tiers, a string that is none
\* of them and the empty string.
TiersIn == {TierStarter, TierProfessional, TierBusiness, "enterprise", ""}

\* The confirmation of a cancellation: the name registered and another.
ConfirmNames == {"Acme RIA", "Acme"}

NextBilling ==
    \/ \E b \in RegisterBodies : handleRegister(b)
    \/ \E u \in DOMAIN accounts, tier \in TiersIn : handleCreateSubscription(Token(u), tier)
    \/ \E u \in DOMAIN accounts, tier \in TiersIn : handleUpdateSubscription(Token(u), tier)
    \/ \E u \in DOMAIN accounts, n \in ConfirmNames : handleCancelSubscription(Token(u), n)
    \/ \E u \in DOMAIN accounts, b \in OrganizationBodies :
          handleUpdateOrganization(Token(u), b)

SpecBilling == InitRegister /\ [][NextBilling]_vars

\* C38: the seats of every stored organization are the seats of its tier: 25
\* for professional, 50 for business, 10 for starter and for any other tier.
SeatsFollowTier ==
    \A o \in DOMAIN organizations :
       organizations[o].Subscription.MaxUsers =
          IF organizations[o].Subscription.Tier = TierProfessional THEN 25
          ELSE IF organizations[o].Subscription.Tier = TierBusiness THEN 50
          ELSE 10

\* An organization registered, chose a tier, moved to the business tier and
\* cancelled: it has the 50 seats of the business tier.
SeatsFollowTierWitness ==
    \E o \in DOMAIN organizations :
       /\ Len(trace[o]) = 3
       /\ trace[o][2].op = "create-subscription"
       /\ trace[o][3].op = "update-subscription"
       /\ organizations[o].Subscription.Tier = TierBusiness
       /\ organizations[o].Subscription.MaxUsers = 50
       /\ organizations[o].Subscription.Status = "active"
       /\ organizations[o].Subscription.CancelAtPeriodEnd

====
